---- MODULE Spec2Model ----
(***************************************************************************)
(* Model of src/cpp/session/modules/SessionCodeSearch.cpp: the project     *)
(* source-file index (SourceFileIndex: entries_, indexingQueue_,           *)
(* indexing_), the work items it registers with the session scheduler, the *)
(* live-document index (RSourceIndexes) and the file / symbol searches.    *)
(***************************************************************************)
EXTENDS Integers, Sequences, FiniteSets, TLC

(***************************************************************************)
(* Bounds of the model.                                                    *)
(***************************************************************************)
\* events waiting in indexingQueue_ at one time
MaxQueue == 2
\* dequeAndIndex work items registered with the scheduler at one time
MaxWork == 2

\* the longest score list, and the highest score, given to filterScores
MaxList == 3

MaxScore == 2

\* the longest candidate name, and the longest term, given to scoreMatch
MaxName == 4

MaxTerm == 2

\* the largest cap of a filename search
MaxCap == 3

(***************************************************************************)
(* Strings are sequences of one-character strings.                         *)
(***************************************************************************)
Upper == <<"A", "B", "C", "D", "E", "F", "G", "H", "I", "J", "K", "L", "M",
           "N", "O", "P", "Q", "R", "S", "T", "U", "V", "W", "X", "Y", "Z">>
Lower == <<"a", "b", "c", "d", "e", "f", "g", "h", "i", "j", "k", "l", "m",
           "n", "o", "p", "q", "r", "s", "t", "u", "v", "w", "x", "y", "z">>

toLowerChar(c) ==
    IF \E i \in 1..Len(Upper) : Upper[i] = c
    THEN Lower[CHOOSE i \in 1..Len(Upper) : Upper[i] = c]
    ELSE c

to_lower_copy(s) == [i \in 1..Len(s) |-> toLowerChar(s[i])]

(***************************************************************************)
(* The files of the watched tree.  A file identity is the rank of its      *)
(* absolute path in path order (core::fileInfoPathLessThan compares the    *)
(* absolute paths), so f < g is the order of entries_.                     *)
(***************************************************************************)
FileTable ==
    << [filename |-> <<"a", ".", "R">>,      isDirectory |-> FALSE,
        isUserFile |-> TRUE,  hasTextMimeType |-> TRUE],
       [filename |-> <<"b", ".", "R">>,      isDirectory |-> FALSE,
        isUserFile |-> TRUE,  hasTextMimeType |-> TRUE],
       [filename |-> <<"c", ".", "R", "d">>, isDirectory |-> FALSE,
        isUserFile |-> TRUE,  hasTextMimeType |-> FALSE],
       [filename |-> <<"d", ".", "p", "n", "g">>, isDirectory |-> FALSE,
        isUserFile |-> TRUE,  hasTextMimeType |-> FALSE] >>

Files == 1..Len(FileTable)

\* the files the file monitor reports while the index is being built and
\* kept up to date (b.R is a file that is only ever opened as a document)
TreeFiles == {1, 3, 4}

\* FilePath::filename
filename(f) == FileTable[f].filename

\* the extension of a file name: from the last '.', lower-cased; empty when
\* the name has no '.'
extensionOf(n) ==
    LET dots == {i \in 1..Len(n) : n[i] = "."}
    IN  IF dots = {} THEN <<>>
        ELSE LET d == CHOOSE i \in dots : \A j \in dots : j <= i
             IN  to_lower_copy(SubSeq(n, d, Len(n)))

ExtensionTable == [f \in Files |-> extensionOf(filename(f))]

\* FilePath::extensionLowerCase
extensionLowerCase(f) == ExtensionTable[f]

\* the extensions and base names isSourceFile accepts
SourceExtensions ==
    { <<".", "r">>, <<".", "r", "n", "w">>, <<".", "r", "m", "d">>,
      <<".", "r", "m", "a", "r", "k", "d", "o", "w", "n">>,
      <<".", "r", "h", "t", "m", "l">>, <<".", "r", "d">>,
      <<".", "h">>, <<".", "h", "p", "p">>, <<".", "c">>,
      <<".", "c", "p", "p">>, <<".", "j", "s", "o", "n">> }

SourceFilenames ==
    { <<"D","E","S","C","R","I","P","T","I","O","N">>,
      <<"N","A","M","E","S","P","A","C","E">>,
      <<"R","E","A","D","M","E">>, <<"N","E","W","S">>,
      <<"M","a","k","e","f","i","l","e">>,
      <<"c","o","n","f","i","g","u","r","e">>,
      <<"c","l","e","a","n","u","p">>,
      <<"M","a","k","e","v","a","r","s">> }

\* SourceFileIndex::isSourceFile: the trackable filter
isSourceFile(f) ==
    /\ FileTable[f].isUserFile
    /\ ~FileTable[f].isDirectory
    /\ \/ extensionLowerCase(f) \in SourceExtensions
       \/ filename(f) \in SourceFilenames
       \/ FileTable[f].hasTextMimeType

\* SourceFileIndex::isIndexableSourceFile
isIndexableSourceFile(f) ==
    /\ ~FileTable[f].isDirectory
    /\ extensionLowerCase(f) = <<".", "r">>

(***************************************************************************)
(* File content and its symbols.  readAndDecodeFile yields the code of the *)
(* file or fails; RSourceIndex(context, code) parses the code into items.  *)
(***************************************************************************)
Codes == {1, 2}

NoRead == [status |-> "none", code |-> 0]

ReadOutcomes ==
    {[status |-> "ok", code |-> c] : c \in Codes}
        \cup {[status |-> "notfound", code |-> 0],
              [status |-> "error", code |-> 0]}

\* a null boost::shared_ptr<RSourceIndex>
NullIndex == [context |-> 0, code |-> 0]

\* new r_util::RSourceIndex(context, code); the aliased path of a file is
\* in one-to-one correspondence with its path
RSourceIndex(context, code) == [context |-> context, code |-> code]

\* Entry(fileInfo, pIndex)
Entry(f, pIndex) == [fileInfo |-> f, pIndex |-> pIndex]

\* Entry::hasIndex
hasIndex(entry) == entry.pIndex # NullIndex

\* Entry::operator<
EntryLess(a, b) == a.fileInfo < b.fileInfo

(***************************************************************************)
(* std::set<Entry>: a sequence kept in strictly ascending Entry order.     *)
(***************************************************************************)
\* lower_bound: the first position whose element is not less than e
LowerBound(s, e) ==
    IF \E i \in 1..Len(s) : ~EntryLess(s[i], e)
    THEN CHOOSE i \in 1..Len(s) :
            /\ ~EntryLess(s[i], e)
            /\ \A j \in 1..(i - 1) : EntryLess(s[j], e)
    ELSE Len(s) + 1

InsertAt(s, pos, e) ==
    SubSeq(s, 1, pos - 1) \o <<e>> \o SubSeq(s, pos, Len(s))

\* variant: std::multiset::insert
SetInsertAlways(s, e) ==
    LET pos == LowerBound(s, e)
    IN  [set |-> InsertAt(s, pos, e), first |-> pos, second |-> TRUE]

\* std::set::insert(value): <<iterator, inserted>>; an equivalent element
\* blocks the insertion and is left as it is
SetInsert(s, e) ==
    LET pos == LowerBound(s, e)
    IN  IF pos <= Len(s) /\ ~EntryLess(e, s[pos])
        THEN [set |-> s, first |-> pos, second |-> FALSE]
        ELSE [set |-> InsertAt(s, pos, e), first |-> pos, second |-> TRUE]

\* std::set::insert(hint, value): the hint changes the cost, not the result
SetInsertHint(s, hint, e) == SetInsert(s, e).set

\* std::set::erase(iterator)
SetErase(s, pos) == SubSeq(s, 1, pos - 1) \o SubSeq(s, pos + 1, Len(s))

\* std::set::find: the position of the element equivalent to e, or end()
SetFind(s, e) ==
    LET pos == LowerBound(s, e)
    IN  IF pos <= Len(s) /\ ~EntryLess(e, s[pos]) THEN pos ELSE Len(s) + 1

(***************************************************************************)
(* File-change events and the operations on the entry store.               *)
(***************************************************************************)
\* the event types the file monitor delivers (FileChangeEvent::Type)
EventTypes == {"FileAdded", "FileModified", "FileRemoved"}

\* FileChangeEvent(type, fileInfo); stale is history, not program state:
\* the event was in the queue when clear() ran
FileChangeEvent(type, f) == [type |-> type, fileInfo |-> f, stale |-> FALSE]

NoEvent == [type |-> "None", fileInfo |-> 0, stale |-> FALSE]

\* variant: a failed insertion erases the old entry and does not re-insert
updateIndexEntryNoReinsert(s, f, read) ==
    IF isIndexableSourceFile(f) /\ read.status # "ok"
    THEN s
    ELSE LET pIndex == IF isIndexableSourceFile(f)
                       THEN RSourceIndex(f, read.code)
                       ELSE NullIndex
             result == SetInsert(s, Entry(f, pIndex))
         IN  IF result.second THEN result.set
             ELSE SetErase(result.set, result.first)

\* variant: a failed insertion leaves the old entry in place
updateIndexEntryKeepOld(s, f, read) ==
    IF isIndexableSourceFile(f) /\ read.status # "ok"
    THEN s
    ELSE LET pIndex == IF isIndexableSourceFile(f)
                       THEN RSourceIndex(f, read.code)
                       ELSE NullIndex
         IN  SetInsert(s, Entry(f, pIndex)).set

\* variant: a read that fails (other than path-not-found) falls through
\* with a null index, and the entry is stored without symbols
updateIndexEntryMarkSymbolless(s, f, read) ==
    IF isIndexableSourceFile(f) /\ read.status = "notfound"
    THEN s
    ELSE LET pIndex == IF isIndexableSourceFile(f) /\ read.status = "ok"
                       THEN RSourceIndex(f, read.code)
                       ELSE NullIndex
             entry == Entry(f, pIndex)
             result == SetInsert(s, entry)
         IN  IF result.second THEN result.set
             ELSE SetInsert(SetErase(result.set, result.first), entry).set

\* variant: path-not-found drops the entry of the vanished file
updateIndexEntryNotFoundRemoves(s, f, read) ==
    IF isIndexableSourceFile(f) /\ read.status = "notfound"
    THEN SelectSeq(s, LAMBDA e : e.fileInfo # f)
    ELSE IF isIndexableSourceFile(f) /\ read.status # "ok"
    THEN s
    ELSE LET pIndex == IF isIndexableSourceFile(f)
                       THEN RSourceIndex(f, read.code)
                       ELSE NullIndex
             entry == Entry(f, pIndex)
             result == SetInsert(s, entry)
         IN  IF result.second THEN result.set
             ELSE SetInsert(SetErase(result.set, result.first), entry).set

\* SourceFileIndex::updateIndexEntry
updateIndexEntry(s, f, read) ==
    IF isIndexableSourceFile(f) /\ read.status # "ok"
    THEN s
    ELSE LET pIndex == IF isIndexableSourceFile(f)
                       THEN RSourceIndex(f, read.code)
                       ELSE NullIndex
             entry == Entry(f, pIndex)
             result == SetInsert(s, entry)
         IN  IF result.second
             THEN result.set
             ELSE IF result.first = 1
                  THEN SetInsert(SetErase(result.set, result.first), entry).set
                  ELSE LET hintIter == result.first - 1
                       IN  SetInsertHint(SetErase(result.set, result.first),
                                         hintIter, entry)

\* variant: the entry is looked up by value, not by Entry::operator<
removeIndexEntryByValue(s, f) ==
    LET it == SetFind(s, Entry(f, NullIndex))
    IN  IF it # Len(s) + 1 /\ s[it] = Entry(f, NullIndex)
        THEN SetErase(s, it) ELSE s

\* variant: erases begin() when the entry is found
removeIndexEntryBegin(s, f) ==
    LET it == SetFind(s, Entry(f, NullIndex))
    IN  IF it # Len(s) + 1 THEN SetErase(s, 1) ELSE s

\* SourceFileIndex::removeIndexEntry
removeIndexEntry(s, f) ==
    LET it == SetFind(s, Entry(f, NullIndex))
    IN  IF it # Len(s) + 1 THEN SetErase(s, it) ELSE s

\* the switch of dequeAndIndex on the event type
processEvent(s, event, read) ==
    CASE event.type \in {"FileAdded", "FileModified"} ->
            updateIndexEntry(s, event.fileInfo, read)
      [] event.type = "FileRemoved" ->
            removeIndexEntry(s, event.fileInfo)
      [] OTHER -> s

\* the outcomes readAndDecodeFile can have while the event is processed;
\* no read takes place for a removal or for a file that is not indexable
ReadsFor(event) ==
    IF /\ event.type \in {"FileAdded", "FileModified"}
       /\ isIndexableSourceFile(event.fileInfo)
    THEN ReadOutcomes
    ELSE {NoRead}

(***************************************************************************)
(* SourceFileIndex operations.                                             *)
(***************************************************************************)
RECURSIVE Ascending(_)
\* the leaves of a file tree, in path order
Ascending(S) ==
    IF S = {} THEN <<>>
    ELSE LET m == CHOOSE x \in S : \A y \in S : x <= y
         IN  <<m>> \o Ascending(S \ {m})

RECURSIVE pushSourceFiles(_, _)
\* the loop of enqueFiles: an Added event for every source file of the range
pushSourceFiles(q, files) ==
    IF files = <<>> THEN q
    ELSE IF isSourceFile(Head(files))
         THEN pushSourceFiles(
                  Append(q, FileChangeEvent("FileAdded", Head(files))),
                  Tail(files))
         ELSE pushSourceFiles(q, Tail(files))

\* SourceFileIndex::enqueFiles: the queue, indexing_ and the work scheduled
enqueFiles(q, indexing, files) ==
    LET q2 == pushSourceFiles(q, files)
    IN  IF q2 # <<>> /\ ~indexing
        THEN [queue |-> q2, indexing |-> TRUE, sched |-> "burst"]
        ELSE [queue |-> q2, indexing |-> indexing, sched |-> "none"]

\* variant: files that are not source files are not screened out
enqueFileChangeUnscreened(q, indexing, type, f) ==
    LET q2 == Append(q, FileChangeEvent(type, f))
    IN  IF ~indexing
        THEN [queue |-> q2, indexing |-> TRUE, sched |-> "slice"]
        ELSE [queue |-> q2, indexing |-> indexing, sched |-> "none"]

\* variant: the work is scheduled with an initial burst
enqueFileChangeBurst(q, indexing, type, f) ==
    IF ~isSourceFile(f)
    THEN [queue |-> q, indexing |-> indexing, sched |-> "none"]
    ELSE LET q2 == Append(q, FileChangeEvent(type, f))
         IN  IF ~indexing
             THEN [queue |-> q2, indexing |-> TRUE, sched |-> "burst"]
             ELSE [queue |-> q2, indexing |-> indexing, sched |-> "none"]

\* SourceFileIndex::enqueFileChange
enqueFileChange(q, indexing, type, f) ==
    IF ~isSourceFile(f)
    THEN [queue |-> q, indexing |-> indexing, sched |-> "none"]
    ELSE LET q2 == Append(q, FileChangeEvent(type, f))
         IN  IF ~indexing
             THEN [queue |-> q2, indexing |-> TRUE, sched |-> "slice"]
             ELSE [queue |-> q2, indexing |-> indexing, sched |-> "none"]

\* variant: the event is read from the front and not popped
dequeAndIndexNoPop(q, s, read) ==
    LET event == IF q # <<>> THEN Head(q) ELSE NoEvent
        s2 == IF q # <<>> THEN processEvent(s, event, read) ELSE s
    IN  [queue |-> q, entries |-> s2, event |-> event,
         indexing |-> q # <<>>, ret |-> q # <<>>]

\* variant: the step reports that no work remains, whatever the queue holds
dequeAndIndexStops(q, s, read) ==
    LET event == IF q # <<>> THEN Head(q) ELSE NoEvent
        q2 == IF q # <<>> THEN Tail(q) ELSE q
        s2 == IF q # <<>> THEN processEvent(s, event, read) ELSE s
    IN  [queue |-> q2, entries |-> s2, event |-> event,
         indexing |-> FALSE, ret |-> FALSE]

\* SourceFileIndex::dequeAndIndex: one background step
dequeAndIndex(q, s, read) ==
    LET event == IF q # <<>> THEN Head(q) ELSE NoEvent
        q2 == IF q # <<>> THEN Tail(q) ELSE q
        s2 == IF q # <<>> THEN processEvent(s, event, read) ELSE s
    IN  [queue |-> q2, entries |-> s2, event |-> event,
         indexing |-> q2 # <<>>, ret |-> q2 # <<>>]

\* variant: the entries are not dropped
clearKeepsEntries(q, s, indexing) ==
    [queue |-> <<>>, entries |-> s, indexing |-> FALSE]

\* variant: the queue is not reset
clearKeepsQueue(q, s, indexing) ==
    [queue |-> q, entries |-> <<>>, indexing |-> FALSE]

\* SourceFileIndex::clear
clear(q, s, indexing) ==
    [queue |-> <<>>, entries |-> <<>>, indexing |-> FALSE]

\* module_context::scheduleIncrementalWork: one more work item registered,
\* with an initial burst ("burst") or in recurring slices only ("slice")
scheduleIncrementalWork(w, sched) ==
    IF sched = "none" THEN w ELSE [w EXCEPT ![sched] = @ + 1]

\* the scheduler runs a work item again while its step returns true and
\* drops it when the step returns false
retireWork(w, kind, ret) ==
    IF ret THEN w ELSE [w EXCEPT ![kind] = @ - 1]

(***************************************************************************)
(* Matching of a search term against a name.                               *)
(***************************************************************************)
Min(a, b) == IF a <= b THEN a ELSE b

RECURSIVE IsSubseqFrom(_, _, _, _)
\* the characters of q from the j-th on occur in t from position from on, in
\* order: each is looked for after the first occurrence of the one before
IsSubseqFrom(t, q, from, j) ==
    IF j > Len(q) THEN TRUE
    ELSE LET found == {i \in from..Len(t) : t[i] = q[j]}
         IN  IF found = {} THEN FALSE
             ELSE IsSubseqFrom(t, q,
                      (CHOOSE i \in found : \A k \in found : i <= k) + 1,
                      j + 1)

\* every character of q occurs in t, in order
IsSubseq(t, q) == IsSubseqFrom(t, q, 1, 1)

\* string_utils::isSubsequence(self, other, other_n, caseInsensitive): the
\* first other_n characters of other are a subsequence of self
isSubsequence(self, other, other_n, caseInsensitive) ==
    LET a == IF caseInsensitive THEN to_lower_copy(self) ELSE self
        b == IF caseInsensitive THEN to_lower_copy(other) ELSE other
    IN  IsSubseq(a, SubSeq(b, 1, Min(other_n, Len(b))))

\* boost::algorithm::istarts_with
istarts_with(name, term) ==
    /\ Len(term) <= Len(name)
    /\ SubSeq(to_lower_copy(name), 1, Len(term)) = to_lower_copy(term)

\* regex_utils::regexIfWildcardPattern: a pattern when the term has a '*'
hasWildcard(term) == \E i \in 1..Len(term) : term[i] = "*"

RECURSIVE MatchHere(_, _)
\* a prefix of t matches the pattern p, '*' standing for any characters
MatchHere(t, p) ==
    IF p = <<>> THEN TRUE
    ELSE IF Head(p) = "*"
         THEN \E k \in 0..Len(t) : MatchHere(SubSeq(t, k + 1, Len(t)), Tail(p))
         ELSE t # <<>> /\ Head(t) = Head(p) /\ MatchHere(Tail(t), Tail(p))

\* regex_utils::textMatches(text, pattern, prefixOnly, caseSensitive): the
\* pattern is found in the text, at its start when prefixOnly
textMatches(text, pattern, prefixOnly, caseSensitive) ==
    LET t == IF caseSensitive THEN text ELSE to_lower_copy(text)
    IN  \E start \in (IF prefixOnly THEN {1} ELSE 1..(Len(t) + 1)) :
            MatchHere(SubSeq(t, start, Len(t)), pattern)

\* term.find(":"), or term.length() when the term has no ':'
queryEnd(term) ==
    IF \E i \in 1..Len(term) : term[i] = ":"
    THEN (CHOOSE i \in 1..Len(term) :
            term[i] = ":" /\ \A j \in 1..(i - 1) : term[j] # ":") - 1
    ELSE Len(term)

\* the terms searched for
Terms == { <<"r">>, <<"a">>, <<"r", "*">> }

\* the part of the term before its first ':', the whole term when it has none
beforeColon(term) == SubSeq(term, 1, queryEnd(term))

\* terms of the form <query>:<row><column>
ColonTerms ==
    { <<"a", ":", "1">>, <<"r", ":">>, <<"c", ".", ":", "1", ":", "2">>,
      <<"a", "*", ":", "1">>, <<"a", ":", "*">> }

\* the terms of the filename searches
FileTerms ==
    Terms \cup ColonTerms \cup {beforeColon(term) : term \in ColonTerms}

(***************************************************************************)
(* The items of a source index.                                            *)
(***************************************************************************)
\* the number of results searchCode asks searchFiles and searchSource for
PreCap == 100

\* the name x...xr, with k times x
XName(k) == [j \in 1..(k + 1) |-> IF j = k + 1 THEN "r" ELSE "x"]

\* a code with one function more than PreCap, the shortest name last
LongCode ==
    [i \in 1..(PreCap + 1) |->
        [name |-> XName(PreCap + 1 - i), type |-> "Function",
         braceLevel |-> 0, line |-> i]]

\* a code with a class, a method and a function of one name
ClassCode ==
    << [name |-> <<"r", "u", "n">>, type |-> "Class",
        braceLevel |-> 0, line |-> 1],
       [name |-> <<"r", "u", "n">>, type |-> "Method",
        braceLevel |-> 0, line |-> 2],
       [name |-> <<"r", "u", "n">>, type |-> "Function",
        braceLevel |-> 0, line |-> 3] >>

\* the items the parser finds in each code; the third code is met only as
\* the contents of a live document of a search request, the fourth only in
\* the lookup of a function
CodeItems ==
    << << [name |-> <<"r", "u", "n">>, type |-> "Function",
           braceLevel |-> 0, line |-> 1] >>,
       << [name |-> <<"r", "u", "n", "A", "l", "l">>, type |-> "Function",
           braceLevel |-> 0, line |-> 1],
          [name |-> <<"r", "u", "n">>, type |-> "Function",
           braceLevel |-> 1, line |-> 2] >>,
       LongCode,
       ClassCode >>

\* the RSourceItems of an index; from is history: "doc" for an index of the
\* live-document index, "entry" for an index of the entry store
Items(pIndex, from) ==
    [i \in 1..Len(CodeItems[pIndex.code]) |->
        [name |-> CodeItems[pIndex.code][i].name,
         type |-> CodeItems[pIndex.code][i].type,
         braceLevel |-> CodeItems[pIndex.code][i].braceLevel,
         line |-> CodeItems[pIndex.code][i].line,
         context |-> pIndex.context,
         from |-> from]]

\* the match of one item in RSourceIndex::search(term, prefixOnly,
\* caseSensitive = false, out)
itemMatches(name, term, prefixOnly) ==
    IF hasWildcard(term)
    THEN textMatches(name, term, prefixOnly, FALSE)
    ELSE IF prefixOnly THEN istarts_with(name, term)
    ELSE isSubsequence(name, term, Len(term), TRUE)

ItemNames ==
    UNION {{CodeItems[c][i].name : i \in 1..Len(CodeItems[c])} :
             c \in 1..Len(CodeItems)}

ItemMatchTable ==
    [name \in ItemNames |-> [term \in FileTerms |-> [prefixOnly \in BOOLEAN |->
        itemMatches(name, term, prefixOnly)]]]

\* RSourceIndex::search
IndexSearch(pIndex, from, term, prefixOnly) ==
    SelectSeq(Items(pIndex, from),
              LAMBDA item : ItemMatchTable[item.name][term][prefixOnly])

(***************************************************************************)
(* Searches of the entry store.                                            *)
(***************************************************************************)
\* variant: one element more than asked for is kept
ResizeOneMore(v, n) == SubSeq(v, 1, Min(n + 1, Len(v)))

Resize(v, n) == SubSeq(v, 1, Min(n, Len(v)))

\* variant: the lists are cut as soon as they reach maxResults
enforceMaxResultsAtCap(maxResults, names, paths, more) ==
    IF Len(names) >= maxResults
    THEN [past |-> TRUE, names |-> Resize(names, maxResults),
          paths |-> Resize(paths, maxResults), more |-> TRUE]
    ELSE [past |-> FALSE, names |-> names, paths |-> paths, more |-> more]

\* enforceMaxResults
enforceMaxResults(maxResults, names, paths, more) ==
    IF Len(names) > maxResults
    THEN [past |-> TRUE, names |-> Resize(names, maxResults),
          paths |-> Resize(paths, maxResults), more |-> TRUE]
    ELSE [past |-> FALSE, names |-> names, paths |-> paths, more |-> more]

\* the match of one entry in SourceFileIndex::searchFiles
fileMatches(name, term, prefixOnly) ==
    IF hasWildcard(term)
    THEN textMatches(name, term, prefixOnly, FALSE)
    ELSE IF prefixOnly THEN istarts_with(name, term)
    ELSE isSubsequence(name, term, queryEnd(term), TRUE)

FileMatchTable ==
    [f \in Files |-> [term \in FileTerms |-> [prefixOnly \in BOOLEAN |->
        fileMatches(filename(f), term, prefixOnly)]]]

RECURSIVE indexSearchFilesFrom(_, _, _, _, _, _)
indexSearchFilesFrom(s, i, term, maxResults, prefixOnly, acc) ==
    IF i > Len(s) THEN acc
    ELSE IF FileMatchTable[s[i].fileInfo][term][prefixOnly]
    THEN LET r == enforceMaxResults(maxResults,
                      Append(acc.names, filename(s[i].fileInfo)),
                      Append(acc.paths, s[i].fileInfo), acc.more)
         IN  IF r.past
             THEN [names |-> r.names, paths |-> r.paths, more |-> r.more]
             ELSE indexSearchFilesFrom(s, i + 1, term, maxResults, prefixOnly,
                      [names |-> r.names, paths |-> r.paths, more |-> r.more])
    ELSE indexSearchFilesFrom(s, i + 1, term, maxResults, prefixOnly, acc)

\* SourceFileIndex::searchFiles
indexSearchFiles(s, term, maxResults, prefixOnly) ==
    indexSearchFilesFrom(s, 1, term, maxResults, prefixOnly,
                         [names |-> <<>>, paths |-> <<>>, more |-> FALSE])

RECURSIVE indexSearchSourceFromAll(_, _, _, _, _, _, _)
\* variant: the excluded contexts are searched like the others
indexSearchSourceFromAll(s, i, term, maxResults, prefixOnly, exclude, items) ==
    IF i > Len(s) THEN items
    ELSE IF ~hasIndex(s[i])
    THEN indexSearchSourceFromAll(s, i + 1, term, maxResults, prefixOnly,
                                  exclude, items)
    ELSE LET items2 == items \o IndexSearch(s[i].pIndex, "entry", term,
                                            prefixOnly)
         IN  IF Len(items2) >= maxResults
             THEN Resize(items2, maxResults)
             ELSE indexSearchSourceFromAll(s, i + 1, term, maxResults,
                                           prefixOnly, exclude, items2)

RECURSIVE indexSearchSourceFrom(_, _, _, _, _, _, _)
indexSearchSourceFrom(s, i, term, maxResults, prefixOnly, exclude, items) ==
    IF i > Len(s) THEN items
    ELSE IF ~hasIndex(s[i]) \/ s[i].pIndex.context \in exclude
    THEN indexSearchSourceFrom(s, i + 1, term, maxResults, prefixOnly,
                               exclude, items)
    ELSE LET items2 == items \o IndexSearch(s[i].pIndex, "entry", term,
                                            prefixOnly)
         IN  IF Len(items2) >= maxResults
             THEN Resize(items2, maxResults)
             ELSE indexSearchSourceFrom(s, i + 1, term, maxResults,
                                        prefixOnly, exclude, items2)

\* SourceFileIndex::searchSource
indexSearchSource(s, term, maxResults, prefixOnly, exclude) ==
    indexSearchSourceFrom(s, 1, term, maxResults, prefixOnly, exclude, <<>>)

(***************************************************************************)
(* The score of a candidate that matches a term: lower is better.          *)
(***************************************************************************)
RECURSIVE subsequenceIndicesFrom(_, _, _, _)
\* the positions (from 0) of the characters of query from the j-th on, each
\* the first occurrence in self at or after position from (from 1)
subsequenceIndicesFrom(self, query, from, j) ==
    IF j > Len(query) THEN <<>>
    ELSE LET p == CHOOSE i \in from..Len(self) :
                    /\ self[i] = query[j]
                    /\ \A k \in from..(i - 1) : self[k] # query[j]
         IN  <<p - 1>> \o subsequenceIndicesFrom(self, query, p + 1, j + 1)

\* string_utils::subsequenceIndices
subsequenceIndices(self, query) == subsequenceIndicesFrom(self, query, 1, 1)

\* string_utils::getExtension
getExtension(name) ==
    LET dots == {i \in 1..Len(name) : name[i] = "."}
    IN  IF dots = {} THEN <<>>
        ELSE SubSeq(name, CHOOSE d \in dots : \A e \in dots : e <= d,
                    Len(name))

\* the delimiters after which a match costs less
isDelim(prevChar, isFile) ==
    prevChar = "_" \/ prevChar = "-" \/ (~isFile /\ prevChar = ".")

\* what the j-th matched character (j from 0) adds to the score: one pass of
\* the loop of scoreMatch
matchPenalty(suggestion, matches, j, isFile) ==
    LET matchPos == matches[j + 1]
        afterDelim == matchPos >= 1 /\ isDelim(suggestion[matchPos], isFile)
    IN  (IF afterDelim THEN j + 1 ELSE matchPos)
        + (IF to_lower_copy(getExtension(suggestion)) = <<".", "r", "d">>
           THEN 3 ELSE 0)

RECURSIVE SumPenalties(_, _, _, _, _)
SumPenalties(suggestion, matches, j, query_n, isFile) ==
    IF j >= query_n THEN 0
    ELSE matchPenalty(suggestion, matches, j, isFile)
         + SumPenalties(suggestion, matches, j + 1, query_n, isFile)

\* variant: a perfect match is scored like any other
scoreMatchNoPerfect(suggestion, query, isFile) ==
    LET matches == subsequenceIndices(to_lower_copy(suggestion),
                                      to_lower_copy(query))
    IN  SumPenalties(suggestion, matches, 0, Len(query), isFile)
        + (IF isFile THEN 1 ELSE 0)

\* variant: files are not penalised
scoreMatchNoFilePenalty(suggestion, query, isFile) ==
    IF suggestion = query THEN 0
    ELSE LET matches == subsequenceIndices(to_lower_copy(suggestion),
                                           to_lower_copy(query))
         IN  SumPenalties(suggestion, matches, 0, Len(query), isFile)

\* scoreMatch, for a query that is a subsequence of the suggestion (case
\* ignored)
scoreMatch(suggestion, query, isFile) ==
    IF suggestion = query THEN 0
    ELSE LET matches == subsequenceIndices(to_lower_copy(suggestion),
                                           to_lower_copy(query))
         IN  SumPenalties(suggestion, matches, 0, Len(query), isFile)
             + (IF isFile THEN 1 ELSE 0)

(***************************************************************************)
(* The merge of two score lists.  A score is a pair: first is the index of *)
(* the candidate in its list of results, second its score.                 *)
(***************************************************************************)
Pair(first, second) == [first |-> first, second |-> second]

RECURSIVE filterScoresLoopFirstList(_, _, _, _, _, _)
\* variant: the first list is taken from for as long as it has items
filterScoresLoopFirstList(score1, score2, i, maxAmount, s1Count, s2Count) ==
    IF i >= maxAmount THEN [s1Count |-> s1Count, s2Count |-> s2Count]
    ELSE IF i + 1 = maxAmount
    THEN IF s1Count < Len(score1)
         THEN [s1Count |-> s1Count + 1, s2Count |-> s2Count]
         ELSE IF s2Count < Len(score2)
         THEN [s1Count |-> s1Count, s2Count |-> s2Count + 1]
         ELSE [s1Count |-> s1Count, s2Count |-> s2Count]
    ELSE LET mid == (i + maxAmount) \div 2
             half == filterScoresLoopFirstList(score1, score2, i, mid,
                                               s1Count, s2Count)
         IN  IF half.s1Count = Len(score1) /\ half.s2Count = Len(score2)
             THEN half
             ELSE filterScoresLoopFirstList(score1, score2, mid, maxAmount,
                                            half.s1Count, half.s2Count)

\* one iteration of the loop of filterScores
filterScoresIteration(score1, score2, s1Count, s2Count) ==
    IF s1Count = Len(score1)
    THEN [s1Count |-> s1Count,
          s2Count |-> IF s2Count < Len(score2) THEN s2Count + 1
                      ELSE s2Count]
    ELSE IF s2Count = Len(score2)
    THEN [s1Count |-> IF s1Count < Len(score1) THEN s1Count + 1
                      ELSE s1Count,
          s2Count |-> s2Count]
    ELSE IF score1[s1Count + 1].second <= score2[s2Count + 1].second
    THEN [s1Count |-> s1Count + 1, s2Count |-> s2Count]
    ELSE [s1Count |-> s1Count, s2Count |-> s2Count + 1]

RECURSIVE filterScoresLoop(_, _, _, _, _, _)
\* the loop of filterScores, from iteration i with the counts so far: the
\* iterations from i to maxAmount - 1, taken as those before the middle one
\* followed by those from it on; once both lists are counted whole the
\* iterations that remain change nothing
filterScoresLoop(score1, score2, i, maxAmount, s1Count, s2Count) ==
    IF i >= maxAmount THEN [s1Count |-> s1Count, s2Count |-> s2Count]
    ELSE IF i + 1 = maxAmount
    THEN filterScoresIteration(score1, score2, s1Count, s2Count)
    ELSE LET mid == (i + maxAmount) \div 2
             half == filterScoresLoop(score1, score2, i, mid,
                                      s1Count, s2Count)
         IN  IF half.s1Count = Len(score1) /\ half.s2Count = Len(score2)
             THEN half
             ELSE filterScoresLoop(score1, score2, mid, maxAmount,
                                   half.s1Count, half.s2Count)

\* filterScores: the two lists as it leaves them
filterScores(score1, score2, maxAmount) ==
    LET c == filterScoresLoop(score1, score2, 0, maxAmount, 0, 0)
    IN  [score1 |-> Resize(score1, c.s1Count),
         score2 |-> Resize(score2, c.s2Count)]

(***************************************************************************)
(* The live-document index and its searches.                               *)
(***************************************************************************)
DocIds == {1, 2}

\* RSourceIndexes::update
update(ix, id, path, contents) ==
    IF path = 0 \/ extensionLowerCase(path) # <<".", "r">>
    THEN ix
    ELSE [ix EXCEPT ![id] = RSourceIndex(path, contents)]

\* RSourceIndexes::remove
remove(ix, id) == [ix EXCEPT ![id] = NullIndex]

\* RSourceIndexes::removeAll
removeAll(ix) == [id \in DocIds |-> NullIndex]

\* RSourceIndexes::indexes: the indexes of the map, in the order of the ids
indexes(ix) ==
    LET v == [id \in 1..Cardinality(DocIds) |-> ix[id]]
    IN  SelectSeq(v, LAMBDA pIndex : pIndex # NullIndex)

\* the files within the project directory
ProjectFiles == TreeFiles

\* sourceDatabaseFilter
sourceDatabaseFilter(index, hasProject) ==
    IF hasProject THEN index.context \in ProjectFiles ELSE TRUE

RECURSIVE searchSourceDatabaseFrom(_, _, _, _, _, _, _)
searchSourceDatabaseFrom(v, i, term, maxResults, prefixOnly, hasProject, acc) ==
    IF i > Len(v) THEN acc
    ELSE IF ~sourceDatabaseFilter(v[i], hasProject)
    THEN searchSourceDatabaseFrom(v, i + 1, term, maxResults, prefixOnly,
                                  hasProject, acc)
    ELSE LET items2 == acc.items \o IndexSearch(v[i], "doc", term, prefixOnly)
             ctx2 == acc.contexts \cup {v[i].context}
         IN  IF Len(items2) >= maxResults
             THEN [items |-> Resize(items2, maxResults), contexts |-> ctx2]
             ELSE searchSourceDatabaseFrom(v, i + 1, term, maxResults,
                      prefixOnly, hasProject,
                      [items |-> items2, contexts |-> ctx2])

\* searchSourceDatabase
searchSourceDatabase(ix, term, maxResults, prefixOnly, hasProject) ==
    searchSourceDatabaseFrom(indexes(ix), 1, term, maxResults, prefixOnly,
                             hasProject, [items |-> <<>>, contexts |-> {}])

RECURSIVE pushProjItems(_, _, _, _)
\* the loop that adds the project items to the list
pushProjItems(items, projItems, maxResults, more) ==
    IF projItems = <<>> THEN [items |-> items, more |-> more]
    ELSE LET items2 == Append(items, Head(projItems))
         IN  IF Len(items2) > maxResults
             THEN [items |-> Resize(items2, maxResults), more |-> TRUE]
             ELSE pushProjItems(items2, Tail(projItems), maxResults, more)

\* searchSource; srcDBContexts is returned with the results as history
searchSource(s, ix, term, maxResults, prefixOnly, hasProject) ==
    LET db == searchSourceDatabase(ix, term, maxResults, prefixOnly,
                                   hasProject)
    IN  IF Len(db.items) > maxResults
        THEN [items |-> Resize(db.items, maxResults), more |-> TRUE,
              srcDBContexts |-> db.contexts]
        ELSE LET maxProjResults == maxResults - Len(db.items)
                 projItems == indexSearchSource(s, term, maxProjResults,
                                                prefixOnly, db.contexts)
                 r == pushProjItems(db.items, projItems, maxResults, FALSE)
             IN  [items |-> r.items, more |-> r.more,
                  srcDBContexts |-> db.contexts]

\* the match of one live document in searchSourceDatabaseFiles
docFileMatches(name, term) ==
    IF hasWildcard(term)
    THEN textMatches(name, term, TRUE, FALSE)
    ELSE isSubsequence(name, term, queryEnd(term), FALSE)

DocFileMatchTable ==
    [f \in Files |-> [term \in FileTerms |-> docFileMatches(filename(f), term)]]

RECURSIVE searchSourceDatabaseFilesFrom(_, _, _, _, _)
searchSourceDatabaseFilesFrom(v, i, term, maxResults, acc) ==
    IF i > Len(v) THEN acc
    ELSE IF v[i].context = 0
    THEN searchSourceDatabaseFilesFrom(v, i + 1, term, maxResults, acc)
    ELSE IF DocFileMatchTable[v[i].context][term]
    THEN LET r == enforceMaxResults(maxResults,
                      Append(acc.names, filename(v[i].context)),
                      Append(acc.paths, v[i].context), acc.more)
         IN  IF r.past
             THEN [names |-> r.names, paths |-> r.paths, more |-> r.more]
             ELSE searchSourceDatabaseFilesFrom(v, i + 1, term, maxResults,
                      [names |-> r.names, paths |-> r.paths, more |-> r.more])
    ELSE searchSourceDatabaseFilesFrom(v, i + 1, term, maxResults, acc)

\* searchSourceDatabaseFiles
searchSourceDatabaseFiles(ix, term, maxResults) ==
    searchSourceDatabaseFilesFrom(indexes(ix), 1, term, maxResults,
        [names |-> <<>>, paths |-> <<>>, more |-> FALSE])

\* searchFiles
searchFiles(s, ix, term, maxResults, hasFileMonitor) ==
    IF hasFileMonitor
    THEN indexSearchFiles(s, term, maxResults, FALSE)
    ELSE searchSourceDatabaseFiles(ix, term, maxResults)

(***************************************************************************)
(* The lookup of a global function.                                        *)
(***************************************************************************)
\* variant: the brace level is not looked at
isFunctionNamed(sourceItem, name) ==
    /\ sourceItem.type \in {"Function", "Method"}
    /\ sourceItem.name = name

\* isGlobalFunctionNamed
isGlobalFunctionNamed(sourceItem, name) ==
    /\ sourceItem.braceLevel = 0
    /\ sourceItem.type \in {"Function", "Method"}
    /\ sourceItem.name = name

\* a default-constructed RSourceItem
NoItem == [name |-> <<>>, type |-> "None", braceLevel |-> 0, line |-> 0,
           context |-> 0, from |-> "none"]

RECURSIVE findGlobalFunctionInSourceDatabaseFrom(_, _, _, _, _)
findGlobalFunctionInSourceDatabaseFrom(v, i, functionName, hasProject, searched) ==
    IF i > Len(v)
    THEN [found |-> FALSE, functionItem |-> NoItem,
          contextsSearched |-> searched]
    ELSE IF ~sourceDatabaseFilter(v[i], hasProject)
    THEN findGlobalFunctionInSourceDatabaseFrom(v, i + 1, functionName,
                                                hasProject, searched)
    ELSE LET contexts2 == searched \cup {v[i].context}
             sourceItems ==
                 SelectSeq(Items(v[i], "doc"),
                           LAMBDA item :
                               isGlobalFunctionNamed(item, functionName))
         IN  IF Len(sourceItems) > 0
             THEN [found |-> TRUE, functionItem |-> sourceItems[1],
                   contextsSearched |-> contexts2]
             ELSE findGlobalFunctionInSourceDatabaseFrom(v, i + 1,
                      functionName, hasProject, contexts2)

\* findGlobalFunctionInSourceDatabase
findGlobalFunctionInSourceDatabase(ix, functionName, hasProject) ==
    findGlobalFunctionInSourceDatabaseFrom(indexes(ix), 1, functionName,
                                           hasProject, {})

RECURSIVE findGlobalFunctionFrom(_, _, _, _)
findGlobalFunctionFrom(s, i, functionName, excludeContexts) ==
    IF i > Len(s) THEN [found |-> FALSE, functionItem |-> NoItem]
    ELSE IF ~hasIndex(s[i]) \/ s[i].pIndex.context \in excludeContexts
    THEN findGlobalFunctionFrom(s, i + 1, functionName, excludeContexts)
    ELSE LET sourceItems ==
                 SelectSeq(Items(s[i].pIndex, "entry"),
                           LAMBDA item :
                               isGlobalFunctionNamed(item, functionName))
         IN  IF Len(sourceItems) > 0
             THEN [found |-> TRUE, functionItem |-> sourceItems[1]]
             ELSE findGlobalFunctionFrom(s, i + 1, functionName,
                                         excludeContexts)

\* SourceFileIndex::findGlobalFunction
findGlobalFunction(s, functionName, excludeContexts) ==
    findGlobalFunctionFrom(s, 1, functionName, excludeContexts)

\* getFunctionDefinition, "find in source database then in project index":
\* contexts is returned with the result as history
findInSourceDatabaseThenProjectIndex(s, ix, name, hasProject) ==
    LET db == findGlobalFunctionInSourceDatabase(ix, name, hasProject)
        proj == findGlobalFunction(s, name, db.contextsSearched)
    IN  IF db.found
        THEN [found |-> TRUE, sourceItem |-> db.functionItem,
              contexts |-> db.contextsSearched, consulted |-> TRUE]
        ELSE [found |-> proj.found, sourceItem |-> proj.functionItem,
              contexts |-> db.contextsSearched, consulted |-> TRUE]

(***************************************************************************)
(* The definition requests.  The calls into R are inputs of a request:     *)
(* ext holds, for each call, whether it fails and what it yields.          *)
(***************************************************************************)
PackagePrefix == <<"p", "a", "c", "k", "a", "g", "e", ":">>

NamespacePrefix == <<"n", "a", "m", "e", "s", "p", "a", "c", "e", ":">>

startsWith(s, prefix) ==
    Len(s) >= Len(prefix) /\ SubSeq(s, 1, Len(prefix)) = prefix

\* namespaceIsPackage: whether it is one, and the package name
namespaceIsPackage(namespaceName) ==
    IF namespaceName = <<>> THEN [is |-> FALSE, package |-> <<>>]
    ELSE IF startsWith(namespaceName, PackagePrefix)
            /\ Len(namespaceName) > Len(PackagePrefix)
    THEN [is |-> TRUE,
          package |-> SubSeq(namespaceName, Len(PackagePrefix) + 1,
                             Len(namespaceName))]
    ELSE [is |-> FALSE, package |-> <<>>]

\* boost::algorithm::trim
trim(s) ==
    LET kept == {i \in 1..Len(s) : s[i] # " "}
    IN  IF kept = {} THEN <<>>
        ELSE SubSeq(s, CHOOSE i \in kept : \A j \in kept : i <= j,
                       CHOOSE i \in kept : \A j \in kept : i >= j)

\* FunctionInfo: the pattern ^([^{]+)\{([^}]+)\}$ and the trimmed method name
FunctionInfo(name) ==
    LET n == Len(name)
        opens == {i \in 1..n : name[i] = "{"}
        open == IF opens = {} THEN 0
                ELSE CHOOSE i \in opens : \A j \in opens : i <= j
        matches == /\ open > 1
                   /\ n >= open + 2
                   /\ name[n] = "}"
                   /\ \A j \in (open + 1)..(n - 1) : name[j] # "}"
    IN  [name |-> name,
         methodName |-> IF matches THEN trim(SubSeq(name, 1, open - 1))
                        ELSE <<>>]

\* FunctionInfo::isS4Method
isS4Method(functionInfo) == functionInfo.methodName # <<>>

\* guessFunctionToken: the pattern ^([^:]+):{2,3}([^:]+)$ on the token of R
splitToken(token) ==
    LET n == Len(token)
        colons == {i \in 1..n : token[i] = ":"}
        first == IF colons = {} THEN n + 1
                 ELSE CHOOSE i \in colons : \A j \in colons : i <= j
        last == IF colons = {} THEN 0
                ELSE CHOOSE i \in colons : \A j \in colons : i >= j
        matches == /\ first > 1
                   /\ last < n
                   /\ last - first + 1 \in {2, 3}
                   /\ \A i \in first..last : token[i] = ":"
    IN  IF matches
        THEN [package |-> SubSeq(token, 1, first - 1),
              name |-> SubSeq(token, last + 1, n)]
        ELSE [package |-> <<>>, name |-> token]

\* guessFunctionToken
guessFunctionToken(ext) ==
    IF ext.guessToken.error
    THEN [error |-> TRUE, token |-> [package |-> <<>>, name |-> <<>>]]
    ELSE [error |-> FALSE, token |-> splitToken(ext.guessToken.value)]

\* findFunction: the error of the last call made decides
findFunction(name, fromWhere, ext) ==
    LET pkg == namespaceIsPackage(fromWhere)
        direct == pkg.is /\ ~ext.getPackageFunction.error
                         /\ ~ext.getPackageFunction.isNull
        namespace1 == IF direct THEN fromWhere ELSE <<>>
        error1 == pkg.is /\ ext.getPackageFunction.error
        second == namespace1 = <<>>
        namespaceName == IF second THEN ext.findFunctionNamespace.value
                         ELSE namespace1
        error == IF second THEN ext.findFunctionNamespace.error ELSE error1
    IN  [found |-> ~error /\ namespaceName # <<>>,
         namespaceName |-> namespaceName]

NullValue == [kind |-> "null", name |-> <<>>, namespace |-> <<>>]

\* createErrorFunctionDefinition
createErrorFunctionDefinition(name, namespaceName) ==
    [kind |-> "error_definition", name |-> name, namespace |-> namespaceName]

\* createFunctionDefinition(name, namespaceName, functionSEXP)
createFunctionDefinitionOf(name, namespaceName, ext) ==
    IF ext.hasSource
    THEN [kind |-> "definition", name |-> name, namespace |-> namespaceName]
    ELSE createErrorFunctionDefinition(name, namespaceName)

\* createFunctionDefinition(name, namespaceName)
createFunctionDefinition(name, namespaceName, ext) ==
    LET s4 == isS4Method(FunctionInfo(name))
        error == IF s4 THEN ext.getS4Method.error ELSE ext.getFunction.error
        isNull == IF s4 THEN FALSE ELSE ext.getFunction.isNull
        functionNamespace ==
            IF s4 /\ ~error THEN ext.getS4Method.namespace ELSE namespaceName
    IN  IF ~error
        THEN IF ~isNull
             THEN createFunctionDefinitionOf(name, functionNamespace, ext)
             ELSE createErrorFunctionDefinition(name, functionNamespace)
        ELSE createErrorFunctionDefinition(name, functionNamespace)

RECURSIVE whereNamespace(_, _)
\* createS3MethodDefinition, the loop over the "where" element
whereNamespace(whereList, i) ==
    IF i > Len(whereList) THEN <<>>
    ELSE IF startsWith(whereList[i], PackagePrefix) THEN whereList[i]
    ELSE IF startsWith(whereList[i], NamespacePrefix)
            /\ Len(whereList[i]) > Len(NamespacePrefix)
    THEN PackagePrefix \o SubSeq(whereList[i], Len(NamespacePrefix) + 1,
                                 Len(whereList[i]))
    ELSE whereNamespace(whereList, i + 1)

\* createS3MethodDefinition
createS3MethodDefinition(name, ext) ==
    IF ext.getAnywhere.error THEN NullValue
    ELSE IF ext.getAnywhere.whereError THEN NullValue
    ELSE LET namespaceName == whereNamespace(ext.getAnywhere.where, 1)
         IN  IF namespaceName # <<>>
             THEN createFunctionDefinition(name, namespaceName, ext)
             ELSE NullValue

\* createS4MethodDefinition
createS4MethodDefinition(functionInfo, ext) ==
    IF ext.getS4Method.error THEN NullValue
    ELSE createFunctionDefinitionOf(functionInfo.name,
                                    ext.getS4Method.namespace, ext)

NoDefinition ==
    [function_name |-> <<>>, hasName |-> FALSE, file |-> 0, line |-> 0,
     search_path_definition |-> NullValue]

NoLookup ==
    [found |-> FALSE, sourceItem |-> NoItem, contexts |-> {},
     consulted |-> FALSE]

ErrorReturn(fn) ==
    [fn |-> fn, status |-> "Error", value |-> NullValue,
     definition |-> NoDefinition, lookup |-> NoLookup]

\* a variant of getFunctionDefinition in which the search of the code is
\* not the alternative of the package branch but follows it
getFunctionDefinitionNoElse(s, ix, params) ==
    LET fn == "getFunctionDefinition"
        ext == params.ext
        guess == guessFunctionToken(ext)
        token == guess.token
        named == [NoDefinition EXCEPT !.function_name = token.name,
                                      !.hasName = TRUE]
        lookup == findInSourceDatabaseThenProjectIndex(s, ix, token.name,
                                                       params.hasProject)
        inPath == findFunction(token.name, <<>>, ext)
        first == IF token.package # <<>>
                 THEN [named EXCEPT !.search_path_definition =
                          createFunctionDefinition(token.name,
                              PackagePrefix \o token.package, ext)]
                 ELSE NoDefinition
    IN  IF params.paramsError THEN ErrorReturn(fn)
        ELSE IF guess.error THEN ErrorReturn(fn)
        ELSE IF token.name # <<>>
        THEN [fn |-> fn, status |-> "Success", value |-> NullValue,
              definition |->
                  IF lookup.found
                  THEN [first EXCEPT !.function_name = token.name,
                                     !.hasName = TRUE,
                                     !.file = lookup.sourceItem.context,
                                     !.line = lookup.sourceItem.line]
                  ELSE IF inPath.found
                  THEN [named EXCEPT !.search_path_definition =
                           createFunctionDefinition(token.name,
                               inPath.namespaceName, ext)]
                  ELSE [first EXCEPT !.function_name = token.name,
                                     !.hasName = TRUE],
              lookup |-> lookup]
        ELSE [fn |-> fn, status |-> "Success", value |-> NullValue,
              definition |-> first, lookup |-> NoLookup]

\* getFunctionDefinition
getFunctionDefinition(s, ix, params) ==
    LET fn == "getFunctionDefinition"
        ext == params.ext
        guess == guessFunctionToken(ext)
        token == guess.token
        named == [NoDefinition EXCEPT !.function_name = token.name,
                                      !.hasName = TRUE]
        lookup == findInSourceDatabaseThenProjectIndex(s, ix, token.name,
                                                       params.hasProject)
        inPath == findFunction(token.name, <<>>, ext)
    IN  IF params.paramsError THEN ErrorReturn(fn)
        ELSE IF guess.error THEN ErrorReturn(fn)
        ELSE IF token.package # <<>>
        THEN [fn |-> fn, status |-> "Success", value |-> NullValue,
              definition |->
                  [named EXCEPT !.search_path_definition =
                      createFunctionDefinition(token.name,
                          PackagePrefix \o token.package, ext)],
              lookup |-> NoLookup]
        ELSE IF token.name # <<>>
        THEN [fn |-> fn, status |-> "Success", value |-> NullValue,
              definition |->
                  IF lookup.found
                  THEN [named EXCEPT !.file = lookup.sourceItem.context,
                                     !.line = lookup.sourceItem.line]
                  ELSE IF inPath.found
                  THEN [named EXCEPT !.search_path_definition =
                           createFunctionDefinition(token.name,
                               inPath.namespaceName, ext)]
                  ELSE named,
              lookup |-> lookup]
        ELSE [fn |-> fn, status |-> "Success", value |-> NullValue,
              definition |-> NoDefinition, lookup |-> NoLookup]

\* getMethodDefinition
getMethodDefinition(params) ==
    LET fn == "getMethodDefinition"
        functionInfo == FunctionInfo(params.name)
    IN  IF params.paramsError THEN ErrorReturn(fn)
        ELSE [fn |-> fn, status |-> "Success",
              value |-> IF isS4Method(functionInfo)
                        THEN createS4MethodDefinition(functionInfo,
                                                      params.ext)
                        ELSE createS3MethodDefinition(params.name,
                                                      params.ext),
              definition |-> NoDefinition, lookup |-> NoLookup]

\* findFunctionInSearchPath
findFunctionInSearchPath(params) ==
    LET fn == "findFunctionInSearchPath"
        ext == params.ext
        guess == guessFunctionToken(ext)
        token == guess.token
        namespaceName ==
            IF token.package # <<>> THEN PackagePrefix \o token.package
            ELSE findFunction(token.name, params.fromWhere,
                              ext).namespaceName
    IN  IF params.paramsError THEN ErrorReturn(fn)
        ELSE IF guess.error THEN ErrorReturn(fn)
        ELSE [fn |-> fn, status |-> "Success",
              value |-> IF namespaceName # <<>>
                        THEN createFunctionDefinition(token.name,
                                                      namespaceName, ext)
                        ELSE [kind |-> "name", name |-> token.name,
                              namespace |-> <<>>],
              definition |-> NoDefinition, lookup |-> NoLookup]

(***************************************************************************)
(* The search request.                                                     *)
(***************************************************************************)
\* the terms of the search requests
CodeTerms == { <<"r">>, <<"a">> }

\* the C++ definitions clang::searchDefinitions may know of
CppIndexes ==
    { <<>>,
      << [kind |-> "CppFunctionDefinition", name |-> <<"r">>,
          filePath |-> 0, line |-> 1] >> }

\* clang::searchDefinitions
searchDefinitions(cppIndex, term) ==
    SelectSeq(cppIndex,
              LAMBDA d : isSubsequence(d.name, term, Len(term), TRUE))

\* fromRSourceItem
fromRSourceItem(rSourceItem) ==
    [type |-> CASE rSourceItem.type = "Function" -> "Function"
                [] rSourceItem.type = "Method" -> "Method"
                [] rSourceItem.type = "Class" -> "Class"
                [] OTHER -> "None",
     name |-> rSourceItem.name,
     context |-> rSourceItem.context,
     line |-> rSourceItem.line,
     from |-> rSourceItem.from]

\* fromCppDefinition
fromCppDefinition(cppDefinition) ==
    [type |-> CASE cppDefinition.kind = "CppNamespaceDefinition" -> "Namespace"
                [] cppDefinition.kind \in {"CppClassDefinition",
                                           "CppStructDefinition"} -> "Class"
                [] cppDefinition.kind = "CppEnumDefinition" -> "Enum"
                [] cppDefinition.kind = "CppFunctionDefinition" -> "Function"
                [] cppDefinition.kind = "CppMemberFunctionDefinition"
                      -> "Method"
                [] OTHER -> "None",
     name |-> cppDefinition.name,
     context |-> cppDefinition.filePath,
     line |-> cppDefinition.line,
     from |-> "cpp"]

\* the names scoreMatch is called with by searchCode
ScoredNames ==
    ItemNames \cup {filename(f) : f \in Files}
              \cup UNION {{cppIndex[i].name : i \in 1..Len(cppIndex)} :
                            cppIndex \in CppIndexes}

ScoreTable ==
    [name \in ScoredNames |-> [term \in CodeTerms |-> [isFile \in BOOLEAN |->
        IF isSubsequence(name, term, Len(term), TRUE)
        THEN scoreMatch(name, term, isFile) ELSE 0]]]

\* the scores of the candidates, each paired with its index
scoreMatches(names, term, isFile) ==
    [i \in 1..Len(names) |-> Pair(i - 1, ScoreTable[names[i]][term][isFile])]

RECURSIVE Arrangements(_)
\* the arrangements of the members of a set in a sequence
Arrangements(S) ==
    IF S = {} THEN {<<>>}
    ELSE UNION {{<<e>> \o p : p \in Arrangements(S \ {e})} : e \in S}

RECURSIVE TieArrangements(_, _)
\* for the seconds of V, each shared by several scores, the indices of these
\* scores in any order, the lower second first
TieArrangements(scores, V) ==
    IF V = {} THEN {<<>>}
    ELSE LET v == CHOOSE x \in V : \A y \in V : x <= y
             group == {i \in 1..Len(scores) : scores[i].second = v}
         IN  UNION {{p \o rest : rest \in TieArrangements(scores, V \ {v})} :
                      p \in Arrangements(group)}

\* the scores in ascending order of second, scores of equal second in the
\* order tieOrder has their indices in
sortedBy(scores, tieOrder) ==
    LET n == Len(scores)
        rank == [i \in 1..n |->
                    Cardinality({j \in 1..n :
                                   scores[j].second < scores[i].second})
                    + Cardinality({k \in 1..Len(tieOrder) :
                                     /\ scores[tieOrder[k]].second
                                            = scores[i].second
                                     /\ \E m \in k..Len(tieOrder) :
                                           tieOrder[m] = i})]
    IN  [k \in 1..n |->
            scores[CHOOSE i \in 1..n :
                      rank[i] = IF scores[i].second
                                     \in {scores[tieOrder[m]].second :
                                            m \in 1..Len(tieOrder)}
                                THEN k ELSE k - 1]]

\* std::sort with ScorePairComparator: what the scores may be left as, that
\* is ascending in second, scores of equal second in any order
stdSort(scores) ==
    LET seconds == {scores[i].second : i \in 1..Len(scores)}
        tied == {v \in seconds :
                    Cardinality({i \in 1..Len(scores) :
                                   scores[i].second = v}) > 1}
    IN  {sortedBy(scores, tieOrder) :
            tieOrder \in TieArrangements(scores, tied)}

\* searchCode up to the scoring: the files and the source items found
searchCodeCandidates(s, ix, term, hasFileMonitor, hasProject, cppIndex) ==
    LET files == searchFiles(s, ix, term, PreCap, hasFileMonitor)
        rSrcItems == searchSource(s, ix, term, PreCap, FALSE, hasProject).items
        cppDefinitions == searchDefinitions(cppIndex, term)
        srcItems == [i \in 1..Len(rSrcItems) |->
                        fromRSourceItem(rSrcItems[i])]
                    \o [i \in 1..Len(cppDefinitions) |->
                          fromCppDefinition(cppDefinitions[i])]
    IN  [names |-> files.names, paths |-> files.paths, srcItems |-> srcItems]

\* searchCode from the sorted scores on: the result of the request, and as
\* history the scores it is made from
searchCodeResult(c, sortedFileScores, sortedSrcItemScores, maxResults) ==
    LET f == filterScores(sortedFileScores, sortedSrcItemScores, maxResults)
        moreFilesAvailable == Len(sortedFileScores) > Len(f.score1)
        moreSourceItemsAvailable == Len(sortedSrcItemScores) > Len(f.score2)
    IN  [fn |-> "searchCode",
         fileScores |-> f.score1,
         srcItemScores |-> f.score2,
         names |-> [i \in 1..Len(f.score1) |-> c.names[f.score1[i].first + 1]],
         paths |-> [i \in 1..Len(f.score1) |-> c.paths[f.score1[i].first + 1]],
         items |-> [i \in 1..Len(f.score2) |->
                       c.srcItems[f.score2[i].first + 1]],
         more_available |-> moreFilesAvailable \/ moreSourceItemsAvailable]

(***************************************************************************)
(* State.                                                                  *)
(***************************************************************************)
VARIABLES
    entries_,        \* SourceFileIndex::entries_
    indexingQueue_,  \* SourceFileIndex::indexingQueue_
    indexing_,       \* SourceFileIndex::indexing_
    work,            \* dequeAndIndex work items registered with the scheduler
    sinceClear,      \* history: "init", "cleared" (no event processed since
                     \* the last clear()) or "used"
    hist,            \* history of one watched file (see Watch)
    lastOp,          \* history: the operation that led to this state
    indexes_,        \* RSourceIndexes::indexes_
    response,        \* what the search that led to this state returned
    step,            \* how far the dequeAndIndex call in progress has got
    call,            \* the arguments of the function called
    result           \* what the function called returned

vars == <<entries_, indexingQueue_, indexing_, work, sinceClear, hist, lastOp,
          indexes_, response, step, call, result>>

\* no dequeAndIndex call is in progress
IdleStep == [pc |-> "idle", kind |-> "none", empty |-> FALSE]

NoCall == [fn |-> "none"]

NoResult == [fn |-> "none"]

\* the parts of the state an operation of the indexer or of the
\* live-document index does not write
CallFrame == UNCHANGED <<call, result>>

Op(op, event, read, ret) ==
    [op |-> op, type |-> event.type, fileInfo |-> event.fileInfo,
     stale |-> event.stale, read |-> read, ret |-> ret]

NoOp == [op |-> "init", type |-> "None", fileInfo |-> 0, stale |-> FALSE,
         read |-> [status |-> "none", code |-> 0], ret |-> FALSE]

(***************************************************************************)
(* The history kept for one watched file: how far its accepted events have *)
(* got through the pattern Added, Modified, Removed, and the last event    *)
(* processed for it since the last clear().  watched = 0: none is kept.    *)
(***************************************************************************)
NoProc == [type |-> "None", read |-> NoRead, run |-> 0]

NoHist == [watched |-> 0, enqPattern |-> 0, lastProc |-> NoProc]

Watch(f) == [watched |-> f, enqPattern |-> 0, lastProc |-> NoProc]

\* no history is kept: no file is watched and lastOp is not recorded
NoHistory == Watch(0 - 1)

\* 3: Added, Modified, Removed were the last three events accepted
PatternNext(p, type) ==
    CASE type = "FileAdded" -> 1
      [] type = "FileModified" /\ p = 1 -> 2
      [] type = "FileRemoved" /\ p = 2 -> 3
      [] OTHER -> 0

\* the events q2 holds beyond q have been accepted
HistAccept(h, q, q2) ==
    IF \E i \in (Len(q) + 1)..Len(q2) : q2[i].fileInfo = h.watched
    THEN [h EXCEPT !.enqPattern =
            PatternNext(@, q2[CHOOSE i \in (Len(q) + 1)..Len(q2) :
                                  q2[i].fileInfo = h.watched].type)]
    ELSE h

\* run: 2 when the event before it, for the same file, had the same type
\* and the same read
HistProcess(h, event, read) ==
    IF event # NoEvent /\ event.fileInfo = h.watched
    THEN [h EXCEPT !.lastProc =
            [type |-> event.type, read |-> read,
             run |-> IF @.type = event.type /\ @.read = read THEN 2 ELSE 1]]
    ELSE h

HistClear(h) == [h EXCEPT !.lastProc = NoProc]

\* the last operation is recorded in the behaviours that watch no file
Record(h, op) == IF h.watched = 0 THEN op ELSE NoOp

MarkStale(q) == [i \in 1..Len(q) |-> [q[i] EXCEPT !.stale = TRUE]]

WorkCount(w) == w.burst + w.slice

\* fileSource and after are history: where searchFiles looked ("entries" or
\* "docs"), and the operation that came just before the search
NoResponse == [names |-> <<>>, paths |-> <<>>, items |-> <<>>,
               more |-> FALSE, fileSource |-> "none", after |-> "init"]

(***************************************************************************)
(* Initial state and actions.                                              *)
(***************************************************************************)
\* the indexer and the live-document index after construction
Constructed ==
    /\ entries_ = <<>>
    /\ indexingQueue_ = <<>>
    /\ indexing_ = FALSE
    /\ work = [burst |-> 0, slice |-> 0]
    /\ sinceClear = "init"
    /\ lastOp = NoOp
    /\ indexes_ = [id \in DocIds |-> NullIndex]
    /\ response = NoResponse
    /\ step = IdleStep

InitIndex ==
    /\ Constructed
    /\ call = NoCall
    /\ result = NoResult

Init ==
    /\ InitIndex
    /\ hist = NoHist

\* the trees the file monitor can report
Leaves == [S \in SUBSET Files |-> Ascending(S)]

\* onFileMonitorEnabled(files): enqueFiles over the leaves of the tree
onFileMonitorEnabled ==
    \E S \in SUBSET TreeFiles :
        LET r == enqueFiles(indexingQueue_, indexing_, Leaves[S])
        IN  /\ Len(r.queue) <= MaxQueue
            /\ WorkCount(scheduleIncrementalWork(work, r.sched)) <= MaxWork
            /\ indexingQueue_' = r.queue
            /\ indexing_' = r.indexing
            /\ work' = scheduleIncrementalWork(work, r.sched)
            /\ hist' = HistAccept(hist, indexingQueue_, r.queue)
            /\ lastOp' = Record(hist, Op("enqueFiles", NoEvent, NoRead, FALSE))
            /\ response' = NoResponse
            /\ UNCHANGED <<entries_, sinceClear, indexes_, step>>
            /\ CallFrame

\* onFilesChanged(events): enqueFileChange for one event
onFilesChanged ==
    \E type \in EventTypes, f \in TreeFiles :
        LET r == enqueFileChange(indexingQueue_, indexing_, type, f)
        IN  /\ Len(r.queue) <= MaxQueue
            /\ WorkCount(scheduleIncrementalWork(work, r.sched)) <= MaxWork
            /\ indexingQueue_' = r.queue
            /\ indexing_' = r.indexing
            /\ work' = scheduleIncrementalWork(work, r.sched)
            /\ hist' = HistAccept(hist, indexingQueue_, r.queue)
            /\ lastOp' = Record(hist, Op("enqueFileChange",
                                         FileChangeEvent(type, f),
                                         NoRead, FALSE))
            /\ response' = NoResponse
            /\ UNCHANGED <<entries_, sinceClear, indexes_, step>>
            /\ CallFrame

\* the scheduler runs one registered work item: one call of dequeAndIndex
BackgroundStep ==
    \E kind \in {"burst", "slice"} :
        /\ work[kind] > 0
        /\ \E read \in ReadsFor(IF indexingQueue_ # <<>>
                                 THEN Head(indexingQueue_) ELSE NoEvent) :
              LET r == dequeAndIndex(indexingQueue_, entries_, read)
              IN  /\ indexingQueue_' = r.queue
                  /\ entries_' = r.entries
                  /\ indexing_' = r.indexing
                  /\ work' = retireWork(work, kind, r.ret)
                  /\ sinceClear' = IF r.event = NoEvent THEN sinceClear
                                   ELSE "used"
                  /\ hist' = HistProcess(hist, r.event, read)
                  /\ lastOp' = Record(hist,
                                      Op("dequeAndIndex", r.event, read, r.ret))
                  /\ response' = NoResponse
                  /\ UNCHANGED <<indexes_, step>>
                  /\ CallFrame

\* a variant of onFileMonitorDisabled that also drops the indexes of the open
\* documents
onFileMonitorDisabledDropsDocuments ==
    LET r == clear(indexingQueue_, entries_, indexing_)
    IN  /\ indexingQueue_' = MarkStale(r.queue)
        /\ entries_' = r.entries
        /\ indexing_' = r.indexing
        /\ sinceClear' = "cleared"
        /\ hist' = HistClear(hist)
        /\ lastOp' = Record(hist, Op("clear", NoEvent, NoRead, FALSE))
        /\ response' = NoResponse
        /\ indexes_' = removeAll(indexes_)
        /\ UNCHANGED <<work, step>>
        /\ CallFrame

\* onFileMonitorDisabled: s_projectIndex.clear()
onFileMonitorDisabled ==
    LET r == clear(indexingQueue_, entries_, indexing_)
    IN  /\ indexingQueue_' = MarkStale(r.queue)
        /\ entries_' = r.entries
        /\ indexing_' = r.indexing
        /\ sinceClear' = "cleared"
        /\ hist' = HistClear(hist)
        /\ lastOp' = Record(hist, Op("clear", NoEvent, NoRead, FALSE))
        /\ response' = NoResponse
        /\ UNCHANGED <<work, indexes_, step>>
        /\ CallFrame

Next ==
    \/ onFileMonitorEnabled
    \/ onFilesChanged
    \/ BackgroundStep
    \/ onFileMonitorDisabled

Spec == Init /\ [][Next]_vars

\* the same program with no history kept, and with the scheduler running a
\* registered work item again for as long as one is registered
InitLive ==
    /\ InitIndex
    /\ hist = NoHistory

SpecLive == InitLive /\ [][Next]_vars /\ WF_vars(BackgroundStep)

\* the same program, with the history of one source file kept
InitWatch ==
    /\ InitIndex
    /\ \E f \in TreeFiles : isSourceFile(f) /\ hist = Watch(f)

SpecWatch == InitWatch /\ [][Next]_vars

(***************************************************************************)
(* The searches, over an entry store the indexer has built and the live    *)
(* documents.                                                              *)
(***************************************************************************)
MaxResultsSet == {1, 2, 100}

RECURSIVE BuildStore(_, _, _)
\* the store after Added events for the files, read with the codes c
BuildStore(s, files, c) ==
    IF files = <<>> THEN s
    ELSE BuildStore(
            processEvent(s, FileChangeEvent("FileAdded", Head(files)),
                IF isIndexableSourceFile(Head(files))
                THEN [status |-> "ok", code |-> c[Head(files)]]
                ELSE NoRead),
            Tail(files), c)

InitQuery ==
    /\ \E S \in SUBSET {f \in TreeFiles : isSourceFile(f)} :
          \E c \in [S -> Codes] : entries_ = BuildStore(<<>>, Leaves[S], c)
    /\ indexingQueue_ = <<>>
    /\ indexing_ = FALSE
    /\ work = [burst |-> 0, slice |-> 0]
    /\ sinceClear = "used"
    /\ lastOp = NoOp
    /\ hist = NoHist
    /\ indexes_ = [id \in DocIds |-> NullIndex]
    /\ response = NoResponse
    /\ step = IdleStep
    /\ call = NoCall
    /\ result = NoResult

QueryFrame == UNCHANGED <<entries_, indexingQueue_, indexing_, work,
                          sinceClear, hist, step, call, result>>

\* onDocUpdated
docUpdate ==
    \E id \in DocIds, path \in {0} \cup Files, contents \in Codes :
        /\ indexes_' = update(indexes_, id, path, contents)
        /\ lastOp' = Op("update", NoEvent, NoRead, FALSE)
        /\ response' = NoResponse
        /\ QueryFrame

\* onDocRemoved
docRemove ==
    \E id \in DocIds :
        /\ indexes_' = remove(indexes_, id)
        /\ lastOp' = Op("remove", NoEvent, NoRead, FALSE)
        /\ response' = NoResponse
        /\ QueryFrame

\* onRemoveAll
docRemoveAll ==
    /\ indexes_' = removeAll(indexes_)
    /\ lastOp' = Op("removeAll", NoEvent, NoRead, FALSE)
    /\ response' = NoResponse
    /\ QueryFrame

\* a call of searchFiles
SearchFiles ==
    \E term \in Terms, maxResults \in MaxResultsSet, hasFileMonitor \in BOOLEAN :
        LET r == searchFiles(entries_, indexes_, term, maxResults,
                             hasFileMonitor)
        IN  /\ response' = [names |-> r.names, paths |-> r.paths,
                            items |-> <<>>, more |-> r.more,
                            fileSource |-> IF hasFileMonitor THEN "entries"
                                           ELSE "docs",
                            after |-> lastOp.op]
            /\ lastOp' = Op("searchFiles", NoEvent, NoRead, FALSE)
            /\ UNCHANGED indexes_
            /\ QueryFrame

\* a call of searchSource
SearchSource ==
    \E term \in Terms, maxResults \in MaxResultsSet, prefixOnly \in BOOLEAN,
       hasProject \in BOOLEAN :
        LET r == searchSource(entries_, indexes_, term, maxResults,
                              prefixOnly, hasProject)
        IN  /\ response' = [names |-> <<>>, paths |-> <<>>,
                            items |-> r.items, more |-> r.more,
                            fileSource |-> "none", after |-> lastOp.op,
                            srcDBContexts |-> r.srcDBContexts]
            /\ lastOp' = Op("searchSource", NoEvent, NoRead, FALSE)
            /\ UNCHANGED indexes_
            /\ QueryFrame

NextQuery ==
    \/ docUpdate
    \/ docRemove
    \/ docRemoveAll
    \/ onFileMonitorDisabled
    \/ SearchFiles
    \/ SearchSource

SpecQuery == InitQuery /\ [][NextQuery]_vars

(***************************************************************************)
(* The indexer with a call of dequeAndIndex taken in three sub-steps: the  *)
(* pop and processing of the head, the read of indexingQueue_.empty(), and *)
(* the write of indexing_ with the return.  onFilesChanged may run between *)
(* the sub-steps.                                                          *)
(***************************************************************************)
InitRace ==
    /\ InitIndex
    /\ hist = NoHistory

\* the scheduler starts a work item: the head is popped and processed
StepPop ==
    \E kind \in {"burst", "slice"} :
        /\ step.pc = "idle"
        /\ work[kind] > 0
        /\ \E read \in ReadsFor(IF indexingQueue_ # <<>>
                                 THEN Head(indexingQueue_) ELSE NoEvent) :
              LET r == dequeAndIndex(indexingQueue_, entries_, read)
              IN  /\ indexingQueue_' = r.queue
                  /\ entries_' = r.entries
                  /\ sinceClear' = IF r.event = NoEvent THEN sinceClear
                                   ELSE "used"
        /\ step' = [pc |-> "popped", kind |-> kind, empty |-> FALSE]
        /\ UNCHANGED <<indexing_, work, hist, lastOp, indexes_, response>>
        /\ CallFrame

\* indexingQueue_.empty() is read
StepCheck ==
    /\ step.pc = "popped"
    /\ step' = [step EXCEPT !.pc = "checked", !.empty = (indexingQueue_ = <<>>)]
    /\ UNCHANGED <<entries_, indexingQueue_, indexing_, work, sinceClear,
                   hist, lastOp, indexes_, response>>
    /\ CallFrame

\* indexing_ is written and returned to the scheduler
StepWrite ==
    /\ step.pc = "checked"
    /\ indexing_' = ~step.empty
    /\ work' = retireWork(work, step.kind, ~step.empty)
    /\ step' = IdleStep
    /\ UNCHANGED <<entries_, indexingQueue_, sinceClear, hist, lastOp,
                   indexes_, response>>
    /\ CallFrame

NextRace ==
    \/ onFilesChanged
    \/ StepPop
    \/ StepCheck
    \/ StepWrite

SpecRace == InitRace /\ [][NextRace]_vars

(***************************************************************************)
(* filterScores, called with two lists sorted by score.                    *)
(***************************************************************************)
\* the score lists of a length, sorted ascending by score
ScoreLists(n) ==
    {[i \in 1..n |-> Pair(i - 1, f[i])] :
        f \in {g \in [1..n -> 0..MaxScore] :
                 \A i \in 1..n, j \in 1..n : i < j => g[i] <= g[j]}}

SortedScoreLists == UNION {ScoreLists(n) : n \in 0..MaxList}

\* what a call of a search function does not write
IndexFrame == UNCHANGED <<entries_, indexingQueue_, indexing_, work,
                          sinceClear, hist, lastOp, indexes_, response, step>>

InitFilter ==
    /\ Constructed
    /\ hist = NoHistory
    /\ result = NoResult
    /\ \E score1 \in SortedScoreLists, score2 \in SortedScoreLists,
          maxAmount \in 0..(2 * MaxList + 1) :
          call = [fn |-> "filterScores", score1 |-> score1, score2 |-> score2,
                  maxAmount |-> maxAmount]

\* the call of filterScores
FilterScores ==
    /\ call.fn = "filterScores"
    /\ result = NoResult
    /\ LET r == filterScores(call.score1, call.score2, call.maxAmount)
       IN  result' = [fn |-> "filterScores", score1 |-> r.score1,
                      score2 |-> r.score2]
    /\ UNCHANGED call
    /\ IndexFrame

SpecFilter == InitFilter /\ [][FilterScores]_vars

(***************************************************************************)
(* scoreMatch, called with a term that is a subsequence of the candidate.  *)
(***************************************************************************)
ScoreAlphabet == {"a", "b", "_", "."}

\* the strings of a length over the alphabet
Strings(n) == [1..n -> ScoreAlphabet]

\* candidates and terms met in use
ExampleNames ==
    { <<"g", "e", "t", "_", "v", "a", "l", "u", "e">>,
      <<"g", "e", "t", "v", "a", "l", "u", "e">>,
      <<"f", "o", "o">>,
      <<"F", "o", "o">>,
      <<"a", "-", "b">>,
      <<"a", ".", "R", "d">>,
      <<"a", ".", "R">>,
      <<".", ".", "a", "b">> }

ExampleTerms ==
    { <<"g", "v">>, <<"f", "o", "o">>, <<"a", "b">>, <<"a">>,
      <<".", ".", "a">> }

CandidateNames == UNION {Strings(n) : n \in 1..MaxName} \cup ExampleNames

ScoreTerms == UNION {Strings(n) : n \in 1..MaxTerm} \cup ExampleTerms

InitScore ==
    /\ Constructed
    /\ hist = NoHistory
    /\ result = NoResult
    /\ \E suggestion \in CandidateNames, query \in ScoreTerms :
          /\ isSubsequence(suggestion, query, Len(query), TRUE)
          /\ call = [fn |-> "scoreMatch", suggestion |-> suggestion,
                     query |-> query]

\* the calls of scoreMatch for the candidate as a file and as a symbol
ScoreMatch ==
    /\ call.fn = "scoreMatch"
    /\ result = NoResult
    /\ result' = [fn |-> "scoreMatch",
                  file |-> scoreMatch(call.suggestion, call.query, TRUE),
                  symbol |-> scoreMatch(call.suggestion, call.query, FALSE)]
    /\ UNCHANGED call
    /\ IndexFrame

SpecScore == InitScore /\ [][ScoreMatch]_vars

(***************************************************************************)
(* searchCode, called over an entry store the indexer has built and at     *)
(* most one live document.                                                 *)
(***************************************************************************)
CodeMaxResults == {0, 1, 2, PreCap}

InitCode ==
    /\ \E S \in SUBSET {f \in TreeFiles : isSourceFile(f)} :
          \E c \in [S -> Codes] : entries_ = BuildStore(<<>>, Leaves[S], c)
    /\ \E path \in {0} \cup Files, contents \in Codes \cup {3} :
          indexes_ = update([id \in DocIds |-> NullIndex], 1, path, contents)
    /\ indexingQueue_ = <<>>
    /\ indexing_ = FALSE
    /\ work = [burst |-> 0, slice |-> 0]
    /\ sinceClear = "used"
    /\ lastOp = NoOp
    /\ hist = NoHistory
    /\ response = NoResponse
    /\ step = IdleStep
    /\ result = NoResult
    /\ \E term \in CodeTerms, maxResults \in CodeMaxResults,
          hasFileMonitor \in BOOLEAN, hasProject \in BOOLEAN,
          cppIndex \in CppIndexes :
          call = [fn |-> "searchCode", term |-> term,
                  maxResults |-> maxResults,
                  hasFileMonitor |-> hasFileMonitor,
                  hasProject |-> hasProject, cppIndex |-> cppIndex]

\* the search request
SearchCode ==
    /\ call.fn = "searchCode"
    /\ result = NoResult
    /\ LET c == searchCodeCandidates(entries_, indexes_, call.term,
                                     call.hasFileMonitor, call.hasProject,
                                     call.cppIndex)
           srcNames == [i \in 1..Len(c.srcItems) |-> c.srcItems[i].name]
       IN  \E fileScores \in stdSort(scoreMatches(c.names, call.term, TRUE)),
              srcItemScores \in stdSort(scoreMatches(srcNames, call.term,
                                                     FALSE)) :
              result' = searchCodeResult(c, fileScores, srcItemScores,
                                         call.maxResults)
    /\ UNCHANGED call
    /\ IndexFrame

SpecCode == InitCode /\ [][SearchCode]_vars

(***************************************************************************)
(* SourceFileIndex::searchFiles, called over an entry store the indexer    *)
(* has built.                                                              *)
(***************************************************************************)
InitFiles ==
    /\ \E S \in SUBSET {f \in Files : isSourceFile(f)} :
          \E c \in [S -> Codes] : entries_ = BuildStore(<<>>, Leaves[S], c)
    /\ indexes_ = [id \in DocIds |-> NullIndex]
    /\ indexingQueue_ = <<>>
    /\ indexing_ = FALSE
    /\ work = [burst |-> 0, slice |-> 0]
    /\ sinceClear = "used"
    /\ lastOp = NoOp
    /\ hist = NoHistory
    /\ response = NoResponse
    /\ step = IdleStep
    /\ result = NoResult
    /\ \E term \in FileTerms, maxResults \in 0..MaxCap,
          prefixOnly \in BOOLEAN :
          call = [fn |-> "searchFiles", term |-> term,
                  maxResults |-> maxResults, prefixOnly |-> prefixOnly]

\* the call of SourceFileIndex::searchFiles
IndexSearchFiles ==
    /\ call.fn = "searchFiles"
    /\ result = NoResult
    /\ LET r == indexSearchFiles(entries_, call.term, call.maxResults,
                                 call.prefixOnly)
       IN  result' = [fn |-> "searchFiles", names |-> r.names,
                      paths |-> r.paths, more |-> r.more]
    /\ UNCHANGED call
    /\ IndexFrame

SpecFiles == InitFiles /\ [][IndexSearchFiles]_vars

PackageBase == PackagePrefix \o <<"b", "a", "s", "e">>

\* what .rs.guessToken may give
Tokens ==
    { <<>>, <<"r", "u", "n">>, <<"r", "u", "n", "A", "l", "l">>,
      <<"R", "u", "n">>, <<"p", ":", ":", "r", "u", "n">>,
      <<"p", ":", "r">> }

GuessTokenOutcomes ==
    {[error |-> TRUE, value |-> <<>>]}
        \cup {[error |-> FALSE, value |-> token] : token \in Tokens}

\* a call that yields a function: it fails, yields NULL or yields one
FunctionOutcomes ==
    { [error |-> TRUE, isNull |-> TRUE], [error |-> FALSE, isNull |-> TRUE],
      [error |-> FALSE, isNull |-> FALSE] }

NamespaceOutcomes ==
    { [error |-> TRUE, value |-> <<>>], [error |-> FALSE, value |-> <<>>],
      [error |-> FALSE, value |-> PackageBase] }

S4MethodOutcomes ==
    { [error |-> TRUE, namespace |-> <<>>],
      [error |-> FALSE, namespace |-> PackageBase] }

AnywhereOutcomes ==
    { [error |-> TRUE, whereError |-> FALSE, where |-> <<>>],
      [error |-> FALSE, whereError |-> TRUE, where |-> <<>>] }
        \cup {[error |-> FALSE, whereError |-> FALSE, where |-> where] :
                 where \in { <<>>, <<PackageBase>>, <<NamespacePrefix>>,
                             <<<<"g">>, NamespacePrefix \o <<"b">>>> }}

\* every call into R succeeds and finds nothing
NothingFound ==
    [guessToken |-> [error |-> FALSE, value |-> <<>>],
     getPackageFunction |-> [error |-> FALSE, isNull |-> TRUE],
     findFunctionNamespace |-> [error |-> FALSE, value |-> <<>>],
     getFunction |-> [error |-> FALSE, isNull |-> TRUE],
     getS4Method |-> [error |-> FALSE, namespace |-> PackageBase],
     getAnywhere |-> [error |-> FALSE, whereError |-> FALSE, where |-> <<>>],
     hasSource |-> FALSE]

\* the names of methods asked for
MethodNames ==
    { <<"r", "u", "n">>, <<"r", "{", "x", "}">>, <<" ", "{", "x", "}">>,
      <<"r", "{", "}">> }

\* the codes of the files and documents a function is looked up in
LookupCodes == Codes \cup {4}

Params(fn, paramsError, hasProject, fromWhere, name, ext) ==
    [fn |-> fn, paramsError |-> paramsError, hasProject |-> hasProject,
     fromWhere |-> fromWhere, name |-> name, ext |-> ext]

\* a request for the definition of a function with any store and documents
InitLookup ==
    /\ \E S \in SUBSET {f \in Files : isIndexableSourceFile(f)} :
          \E c \in [S -> LookupCodes] :
              entries_ = BuildStore(<<>>, Leaves[S], c)
    /\ \E doc \in [DocIds -> ({0} \cup {f \in Files :
                                  isIndexableSourceFile(f)}) \X LookupCodes] :
          indexes_ = update(update([id \in DocIds |-> NullIndex],
                                   1, doc[1][1], doc[1][2]),
                            2, doc[2][1], doc[2][2])
    /\ \E token \in Tokens \ {<<"p", ":", "r">>}, hasProject \in BOOLEAN :
          call = Params("getFunctionDefinition", FALSE, hasProject, <<>>,
                        <<>>,
                        [NothingFound EXCEPT !.guessToken.value = token])

\* a definition request with any outcome of the calls into R
InitExternal ==
    /\ entries_ = BuildStore(<<>>, <<1>>, [f \in {1} |-> 1])
    /\ indexes_ = [id \in DocIds |-> NullIndex]
    /\ \E paramsError \in BOOLEAN, guessToken \in GuessTokenOutcomes,
          getFunction \in FunctionOutcomes, hasSource \in BOOLEAN :
          LET ext == [NothingFound EXCEPT !.guessToken = guessToken,
                                          !.getFunction = getFunction,
                                          !.hasSource = hasSource]
          IN  \/ \E findFunctionNamespace \in NamespaceOutcomes :
                    call = Params("getFunctionDefinition", paramsError,
                                  FALSE, <<>>, <<>>,
                                  [ext EXCEPT !.findFunctionNamespace =
                                                  findFunctionNamespace])
              \/ \E findFunctionNamespace \in NamespaceOutcomes,
                    getPackageFunction \in FunctionOutcomes,
                    fromWhere \in {<<>>, PackageBase} :
                    call = Params("findFunctionInSearchPath", paramsError,
                                  FALSE, fromWhere, <<>>,
                                  [ext EXCEPT !.findFunctionNamespace =
                                                  findFunctionNamespace,
                                              !.getPackageFunction =
                                                  getPackageFunction])
              \/ /\ guessToken = NothingFound.guessToken
                 /\ \E name \in MethodNames,
                       getAnywhere \in AnywhereOutcomes,
                       getS4Method \in S4MethodOutcomes :
                       call = Params("getMethodDefinition", paramsError,
                                     FALSE, <<>>, name,
                                     [ext EXCEPT !.getAnywhere = getAnywhere,
                                                 !.getS4Method = getS4Method])

InitDefinition ==
    /\ InitLookup \/ InitExternal
    /\ indexingQueue_ = <<>>
    /\ indexing_ = FALSE
    /\ work = [burst |-> 0, slice |-> 0]
    /\ sinceClear = "used"
    /\ lastOp = NoOp
    /\ hist = NoHistory
    /\ response = NoResponse
    /\ step = IdleStep
    /\ result = NoResult

GetFunctionDefinition ==
    /\ call.fn = "getFunctionDefinition"
    /\ result = NoResult
    /\ result' = getFunctionDefinition(entries_, indexes_, call)
    /\ UNCHANGED call
    /\ IndexFrame

FindFunctionInSearchPath ==
    /\ call.fn = "findFunctionInSearchPath"
    /\ result = NoResult
    /\ result' = findFunctionInSearchPath(call)
    /\ UNCHANGED call
    /\ IndexFrame

GetMethodDefinition ==
    /\ call.fn = "getMethodDefinition"
    /\ result = NoResult
    /\ result' = getMethodDefinition(call)
    /\ UNCHANGED call
    /\ IndexFrame

NextDefinition ==
    \/ GetFunctionDefinition
    \/ FindFunctionInSearchPath
    \/ GetMethodDefinition

SpecDefinition == InitDefinition /\ [][NextDefinition]_vars

\* a call of searchSource with any store, live documents and parameters
InitSource ==
    /\ \E S \in SUBSET {f \in Files : isSourceFile(f)} :
          \E c \in [S -> Codes] : entries_ = BuildStore(<<>>, Leaves[S], c)
    /\ \E doc \in [DocIds -> ({0} \cup {f \in Files :
                                  isIndexableSourceFile(f)}) \X Codes] :
          indexes_ = update(update([id \in DocIds |-> NullIndex],
                                   1, doc[1][1], doc[1][2]),
                            2, doc[2][1], doc[2][2])
    /\ indexingQueue_ = <<>>
    /\ indexing_ = FALSE
    /\ work = [burst |-> 0, slice |-> 0]
    /\ sinceClear = "used"
    /\ lastOp = NoOp
    /\ hist = NoHistory
    /\ response = NoResponse
    /\ step = IdleStep
    /\ result = NoResult
    /\ \E term \in Terms, maxResults \in 0..MaxCap, prefixOnly \in BOOLEAN,
          hasProject \in BOOLEAN :
          call = [fn |-> "searchSource", term |-> term,
                  maxResults |-> maxResults, prefixOnly |-> prefixOnly,
                  hasProject |-> hasProject]

SearchSourceRequest ==
    /\ call.fn = "searchSource"
    /\ result = NoResult
    /\ LET r == searchSource(entries_, indexes_, call.term, call.maxResults,
                             call.prefixOnly, call.hasProject)
       IN  result' = [fn |-> "searchSource", items |-> r.items,
                      more |-> r.more, srcDBContexts |-> r.srcDBContexts]
    /\ UNCHANGED call
    /\ IndexFrame

SpecSource == InitSource /\ [][SearchSourceRequest]_vars

\* a search request with any term, up to the calls of scoreMatch
InitCandidates ==
    /\ \E S \in SUBSET {f \in TreeFiles : isSourceFile(f)} :
          \E c \in [S -> Codes] : entries_ = BuildStore(<<>>, Leaves[S], c)
    /\ \E path \in {0} \cup Files, contents \in Codes :
          indexes_ = update([id \in DocIds |-> NullIndex], 1, path, contents)
    /\ indexingQueue_ = <<>>
    /\ indexing_ = FALSE
    /\ work = [burst |-> 0, slice |-> 0]
    /\ sinceClear = "used"
    /\ lastOp = NoOp
    /\ hist = NoHistory
    /\ response = NoResponse
    /\ step = IdleStep
    /\ result = NoResult
    /\ \E term \in FileTerms, hasFileMonitor \in BOOLEAN,
          hasProject \in BOOLEAN, cppIndex \in CppIndexes :
          call = [fn |-> "searchCodeCandidates", term |-> term,
                  hasFileMonitor |-> hasFileMonitor,
                  hasProject |-> hasProject, cppIndex |-> cppIndex]

\* searchCode up to its calls of scoreMatch: the names it passes, with the
\* term, to scoreMatch
SearchCodeCandidates ==
    /\ call.fn = "searchCodeCandidates"
    /\ result = NoResult
    /\ LET c == searchCodeCandidates(entries_, indexes_, call.term,
                                     call.hasFileMonitor, call.hasProject,
                                     call.cppIndex)
       IN  result' = [fn |-> "searchCodeCandidates",
                      names |-> c.names,
                      srcNames |-> [i \in 1..Len(c.srcItems) |->
                                       c.srcItems[i].name]]
    /\ UNCHANGED call
    /\ IndexFrame

SpecCandidates == InitCandidates /\ [][SearchCodeCandidates]_vars

(***************************************************************************)
(* The whole module in one session: the indexer fed by the file monitor,   *)
(* the notifications of the source database, and the five query            *)
(* operations, each answering over the entry store and the live documents  *)
(* as they are when it is called.  No history is kept, so an operation of  *)
(* the indexer leaves lastOp at NoOp, and every notification and every     *)
(* query records itself in lastOp.                                         *)
(***************************************************************************)
SessionTerm == <<"r">>

SessionFunction == <<"r", "u", "n">>

\* onDocUpdated for the first document
sessionDocUpdated ==
    \E path \in {0, 1} :
        /\ indexes_' = update(indexes_, 1, path, 1)
        /\ lastOp' = Op("update", NoEvent, NoRead, FALSE)
        /\ response' = NoResponse
        /\ QueryFrame

requestSearchFiles ==
    \E hasFileMonitor \in {TRUE} :
        /\ response' = [fn |-> "searchFiles",
                        value |-> searchFiles(entries_, indexes_, SessionTerm,
                                              PreCap, hasFileMonitor)]
        /\ lastOp' = Op("searchFiles", NoEvent, NoRead, FALSE)
        /\ UNCHANGED indexes_
        /\ QueryFrame

requestSearchSource ==
    \E hasProject \in {TRUE} :
        /\ response' = [fn |-> "searchSource",
                        value |-> searchSource(entries_, indexes_, SessionTerm,
                                               PreCap, FALSE, hasProject)]
        /\ lastOp' = Op("searchSource", NoEvent, NoRead, FALSE)
        /\ UNCHANGED indexes_
        /\ QueryFrame

requestFindGlobalFunction ==
    /\ response' = [fn |-> "findGlobalFunction",
                    value |-> findGlobalFunction(entries_, SessionFunction,
                                                 {})]
    /\ lastOp' = Op("findGlobalFunction", NoEvent, NoRead, FALSE)
    /\ UNCHANGED indexes_
    /\ QueryFrame

requestSearchCode ==
    \E hasProject \in {TRUE} :
        LET c == searchCodeCandidates(entries_, indexes_, SessionTerm, TRUE,
                                      hasProject, <<>>)
            srcNames == [i \in 1..Len(c.srcItems) |-> c.srcItems[i].name]
        IN  \E fileScores \in stdSort(scoreMatches(c.names, SessionTerm,
                                                   TRUE)),
               srcItemScores \in stdSort(scoreMatches(srcNames, SessionTerm,
                                                      FALSE)) :
               /\ response' = [fn |-> "searchCode",
                               value |-> searchCodeResult(c, fileScores,
                                                          srcItemScores,
                                                          PreCap)]
               /\ lastOp' = Op("searchCode", NoEvent, NoRead, FALSE)
               /\ UNCHANGED indexes_
               /\ QueryFrame

requestGetFunctionDefinition ==
    \E hasProject \in {TRUE} :
        LET params == Params("getFunctionDefinition", FALSE, hasProject, <<>>,
                             <<>>,
                             [NothingFound EXCEPT !.guessToken.value =
                                                      SessionFunction])
        IN  /\ response' = [fn |-> "getFunctionDefinition",
                            value |-> getFunctionDefinition(entries_,
                                                            indexes_, params)]
            /\ lastOp' = Op("getFunctionDefinition", NoEvent, NoRead, FALSE)
            /\ UNCHANGED indexes_
            /\ QueryFrame

NextSession ==
    \/ Next
    \/ sessionDocUpdated
    \/ docRemoveAll
    \/ requestSearchFiles
    \/ requestSearchSource
    \/ requestFindGlobalFunction
    \/ requestSearchCode
    \/ requestGetFunctionDefinition

SpecSession == InitLive /\ [][NextSession]_vars

(***************************************************************************)
(* RSourceIndexes under the notifications of the source database, with     *)
(* the most recent update of each document kept in call as history.        *)
(***************************************************************************)
NoUpdate == [path |-> 0 - 1, contents |-> 0]

InitDocuments ==
    /\ Constructed
    /\ hist = NoHistory
    /\ call = [fn |-> "documents", last |-> [id \in DocIds |-> NoUpdate]]
    /\ result = NoResult

DocumentsFrame == UNCHANGED <<entries_, indexingQueue_, indexing_, work,
                              sinceClear, hist, lastOp, response, step, result>>

\* onDocUpdated -> RSourceIndexes::update
documentUpdated ==
    \E id \in DocIds, path \in {0} \cup Files, contents \in Codes :
        /\ indexes_' = update(indexes_, id, path, contents)
        /\ call' = [call EXCEPT !.last[id] = [path |-> path,
                                              contents |-> contents]]
        /\ DocumentsFrame

\* onDocRemoved -> RSourceIndexes::remove
documentRemoved ==
    \E id \in DocIds :
        /\ indexes_' = remove(indexes_, id)
        /\ UNCHANGED call
        /\ DocumentsFrame

\* onRemoveAll -> RSourceIndexes::removeAll
documentsRemovedAll ==
    /\ indexes_' = removeAll(indexes_)
    /\ UNCHANGED call
    /\ DocumentsFrame

NextDocuments ==
    \/ documentUpdated
    \/ documentRemoved
    \/ documentsRemovedAll

SpecDocuments == InitDocuments /\ [][NextDocuments]_vars

TypeOK ==
    /\ indexing_ \in BOOLEAN
    /\ \A i \in 1..Len(entries_) : entries_[i].fileInfo \in Files

(***************************************************************************)
(* Properties.                                                             *)
(***************************************************************************)
HasEntry(s, f) == \E i \in 1..Len(s) : s[i].fileInfo = f

EntryCount(s, f) == Cardinality({i \in 1..Len(s) : s[i].fileInfo = f})

EntryOf(s, f) == s[CHOOSE i \in 1..Len(s) : s[i].fileInfo = f]

Queued(q, f) == \E i \in 1..Len(q) : q[i].fileInfo = f

Updates == {"FileAdded", "FileModified"}

\* a transition in which a background step pops and processes an event
PopStep ==
    /\ indexingQueue_ # <<>>
    /\ indexingQueue_' = Tail(indexingQueue_)
    /\ sinceClear' = "used"

\* C1: after any sequence of enqueFiles, enqueFileChange, dequeAndIndex
\* steps and clear, entries_ holds at most one entry per file path.
C1_OneEntryPerPath ==
    \A i, j \in 1..Len(entries_) :
        i # j => entries_[i].fileInfo # entries_[j].fileInfo

\* the watched file was indexed twice in a row and sits behind another entry
C1_Witness ==
    /\ hist.watched # 0
    /\ hist.lastProc.type \in Updates
    /\ hist.lastProc.run = 2
    /\ Len(entries_) = 2
    /\ entries_[2].fileInfo = hist.watched

\* a step that processes Added(f) right after Added(f), both reading the
\* same content of f (no read takes place when f is not indexable)
SecondAdded ==
    /\ PopStep
    /\ Head(indexingQueue_).type = "FileAdded"
    /\ Head(indexingQueue_).fileInfo = hist.watched
    /\ hist.lastProc.type = "FileAdded"
    /\ hist'.lastProc.run = 2
    /\ hist'.lastProc.read.status \in {"ok", "none"}

\* C2: Added(f) processed twice in a row, with the same file content, leaves
\* exactly one entry for f, and the store is the one the first Added(f) left.
C2_TwiceAddedOneEntry ==
    [][SecondAdded =>
        /\ entries_' = entries_
        /\ EntryCount(entries_', hist.watched) = 1]_vars

C2_Witness ==
    /\ hist.watched # 0
    /\ hist.lastProc.type = "FileAdded"
    /\ hist.lastProc.run = 2
    /\ hist.lastProc.read.status = "ok"
    /\ indexingQueue_ = <<>>
    /\ HasEntry(entries_, hist.watched)

\* C3: once Added(f), Modified(f), Removed(f) have been enqueued in that
\* order, with no later event for f, and no event for f is left in the
\* queue, the store has no entry for f.
C3_AddedModifiedRemoved ==
    (/\ hist.watched # 0
     /\ hist.enqPattern = 3
     /\ ~Queued(indexingQueue_, hist.watched))
        => ~HasEntry(entries_, hist.watched)

\* the three events were processed, the last one by a step, and the entry
\* of another file is in the store
C3_Witness ==
    /\ hist.watched # 0
    /\ hist.enqPattern = 3
    /\ hist.lastProc.type = "FileRemoved"
    /\ indexingQueue_ = <<>>
    /\ entries_ # <<>>

IsPrefix(q, q2) == Len(q) <= Len(q2) /\ SubSeq(q2, 1, Len(q)) = q

\* C4: an event leaves the queue only from the front, in a dequeAndIndex
\* step that processes that one event, or when clear() empties the queue;
\* enqueueing appends behind the events already queued.
C4_FifoExactlyOnce ==
    [][\/ /\ lastOp'.op = "dequeAndIndex"
          /\ indexingQueue_ # <<>>
          /\ indexingQueue_' = Tail(indexingQueue_)
          /\ lastOp'.type = Head(indexingQueue_).type
          /\ lastOp'.fileInfo = Head(indexingQueue_).fileInfo
       \/ /\ lastOp'.op = "dequeAndIndex"
          /\ indexingQueue_ = <<>>
          /\ indexingQueue_' = <<>>
          /\ lastOp'.type = "None"
          /\ entries_' = entries_
       \/ /\ lastOp'.op \in {"enqueFiles", "enqueFileChange"}
          /\ IsPrefix(indexingQueue_, indexingQueue_')
          /\ entries_' = entries_
       \/ /\ lastOp'.op = "clear"
          /\ indexingQueue_' = <<>>]_vars

\* a step has processed one event and left the next one in the queue
C4_Witness ==
    /\ lastOp.op = "dequeAndIndex"
    /\ lastOp.type # "None"
    /\ indexingQueue_ # <<>>

\* C5 as stated: with no event for f left in the queue, an entry for f is
\* present iff the last event processed for f (since the last clear) was
\* Added or Modified, whatever the outcome of its read.
C5_LastEventDecides ==
    (/\ hist.watched # 0
     /\ hist.lastProc.type # "None"
     /\ ~Queued(indexingQueue_, hist.watched))
        => (HasEntry(entries_, hist.watched)
                <=> hist.lastProc.type \in Updates)

\* C5 as amended: with no event for f left in the queue, f has no entry if
\* the last event processed for f since the last clear was Removed; it has
\* an entry with the symbols of that read (none for a file that is not
\* indexable) if the event was Added or Modified and the read succeeded or
\* was not needed; a step whose read fails leaves the store as it was.
C5_LastEventAndRead ==
    /\ [](hist.watched # 0 /\ ~Queued(indexingQueue_, hist.watched) =>
            /\ hist.lastProc.type = "FileRemoved"
                  => ~HasEntry(entries_, hist.watched)
            /\ (/\ hist.lastProc.type \in Updates
                /\ hist.lastProc.read.status \in {"ok", "none"})
                  => /\ EntryCount(entries_, hist.watched) = 1
                     /\ EntryOf(entries_, hist.watched).pIndex =
                          IF hist.lastProc.read.status = "ok"
                          THEN RSourceIndex(hist.watched,
                                            hist.lastProc.read.code)
                          ELSE NullIndex)
    /\ [][(/\ PopStep
           /\ Head(indexingQueue_).fileInfo = hist.watched
           /\ hist'.lastProc.read.status \in {"notfound", "error"})
            => entries_' = entries_]_vars

\* the last event for the watched file re-read it with another content
C5_Witness ==
    /\ hist.watched # 0
    /\ hist.lastProc.type = "FileModified"
    /\ hist.lastProc.read = [status |-> "ok", code |-> 2]
    /\ indexingQueue_ = <<>>
    /\ HasEntry(entries_, hist.watched)

StepOn(op, types, status) ==
    /\ op.op = "dequeAndIndex"
    /\ op.type \in types
    /\ op.read.status = status

C7_NotFoundIgnored ==
    [][StepOn(lastOp', Updates, "notfound") =>
        /\ entries_' = entries_
        /\ indexingQueue_ # <<>>
        /\ indexingQueue_' = Tail(indexingQueue_)
        /\ lastOp'.ret = (indexingQueue_' # <<>>)
        /\ indexing_' = lastOp'.ret]_vars

\* the file was not found, its entry is still there, more work remains
C7_Witness ==
    /\ StepOn(lastOp, Updates, "notfound")
    /\ HasEntry(entries_, lastOp.fileInfo)
    /\ lastOp.ret
    /\ indexingQueue_ # <<>>

\* C8: processing Removed(f) deletes the entry of f when there is one and
\* changes nothing else: the store is the old one without f.
C8_RemoveOnlyThat ==
    [][StepOn(lastOp', {"FileRemoved"}, "none") =>
        entries_' = SelectSeq(entries_,
                        LAMBDA e : e.fileInfo # lastOp'.fileInfo)]_vars

\* Removed(f) was processed and the entry of another file is still there
C8_Witness ==
    /\ StepOn(lastOp, {"FileRemoved"}, "none")
    /\ entries_ # <<>>
    /\ ~HasEntry(entries_, lastOp.fileInfo)

\* C9: clear() leaves the store and the queue empty; no event that was in
\* the queue when clear() ran is processed later; the store stays empty
\* until a step processes an event.
C9_ClearDiscards ==
    /\ lastOp.op = "clear" => entries_ = <<>> /\ indexingQueue_ = <<>>
    /\ sinceClear = "cleared" => entries_ = <<>>
    /\ \A i \in 1..Len(indexingQueue_) : ~indexingQueue_[i].stale
    /\ lastOp.op = "dequeAndIndex" => ~lastOp.stale

\* work scheduled before the clear has run a step after it
C9_Witness ==
    /\ sinceClear = "cleared"
    /\ lastOp.op = "dequeAndIndex"
    /\ lastOp.type = "None"

\* a search has just returned, and the operation before it was clear()
SearchedAfterClear ==
    /\ lastOp.op \in {"searchFiles", "searchSource"}
    /\ response.after = "clear"

\* C10, as stated: a search issued immediately after tree monitoring is
\* disabled returns an empty file bucket and an empty symbol bucket, whatever
\* the entry store and the live-document index held.
C10_EmptyAfterDisable ==
    SearchedAfterClear => response.names = <<>> /\ response.items = <<>>

\* C10, amended: a search issued immediately after tree monitoring is
\* disabled returns nothing of the entry store: every symbol returned is a
\* symbol of a live document, every file returned is the file of a live
\* document, a file search of the entry store returns no file, and both
\* buckets are empty when the live-document index is empty.
C10_NothingOfTheStoreAfterDisable ==
    SearchedAfterClear =>
        /\ \A i \in 1..Len(response.items) : response.items[i].from = "doc"
        /\ \A i \in 1..Len(response.paths) :
              \E id \in DocIds : indexes_[id] # NullIndex
                                 /\ indexes_[id].context = response.paths[i]
        /\ response.fileSource = "entries" => response.names = <<>>
        /\ (\A id \in DocIds : indexes_[id] = NullIndex) =>
              response.names = <<>> /\ response.items = <<>>

\* a symbol search right after clear() that returned a live document's symbol
C10_Witness ==
    /\ SearchedAfterClear
    /\ lastOp.op = "searchSource"
    /\ response.items # <<>>
    /\ entries_ = <<>>

\* C11, as stated: an enqueFileChange call may run between the sub-steps of
\* a dequeAndIndex call in progress, and still no event is left in the queue
\* with no background work scheduled to process it.
C11_NoStrandedEvent ==
    (step.pc = "idle" /\ indexingQueue_ # <<>>) =>
        (indexing_ /\ WorkCount(work) > 0)

\* a step that puts an event into the queue: only enqueFiles and
\* enqueFileChange make the queue longer
EnqueueStep == Len(indexingQueue_') > Len(indexingQueue_)

\* a step of dequeAndIndex: it processes the head, or finds the queue empty
\* and has its work item dropped
DequeStep == PopStep \/ WorkCount(work') < WorkCount(work)

\* C12: dequeAndIndex returns true (its work item stays registered) exactly
\* when the queue is non-empty after the step, and indexing_ is what it
\* returned; and, the scheduler being fair, if enqueues eventually stop then
\* the queue eventually is empty for good with indexing_ false: the step
\* that emptied it returned false.
C12_QueueDrains ==
    /\ [][DequeStep =>
            /\ (WorkCount(work') = WorkCount(work)) <=> (indexingQueue_' # <<>>)
            /\ indexing_' <=> (indexingQueue_' # <<>>)]_vars
    /\ (<>[][~EnqueueStep]_vars) =>
            <>[](indexingQueue_ = <<>> /\ ~indexing_)

\* a step has emptied the queue and its work item is gone: nothing is
\* queued, indexing_ is false and no work item is registered, with an entry
\* in the store the steps built
C12_Witness ==
    /\ sinceClear = "used"
    /\ entries_ # <<>>
    /\ indexingQueue_ = <<>>
    /\ ~indexing_
    /\ WorkCount(work) = 0
    /\ hist.watched < 0

\* the scores of a list
Scores(v) == [i \in 1..Len(v) |-> v[i].second]

\* C13: for two score lists sorted ascending, of lengths m and n, and a cap
\* 0 <= K <= m+n, filterScores leaves a prefix of each list, K items in all,
\* none of them with a higher score than an item it dropped; a list is
\* shortened iff items of it were dropped; for K > m+n both lists are left
\* as they were.
C13_FilterKeepsKSmallest ==
    result.fn = "filterScores" =>
        LET a == call.score1
            b == call.score2
            K == call.maxAmount
            r1 == result.score1
            r2 == result.score2
            kept == {r1[i].second : i \in 1..Len(r1)}
                        \cup {r2[i].second : i \in 1..Len(r2)}
            dropped == {a[i].second : i \in (Len(r1) + 1)..Len(a)}
                           \cup {b[i].second : i \in (Len(r2) + 1)..Len(b)}
        IN  /\ IsPrefix(r1, a) /\ IsPrefix(r2, b)
            /\ K <= Len(a) + Len(b) => Len(r1) + Len(r2) = K
            /\ \A x \in kept, y \in dropped : x <= y
            /\ (r1 # a) <=> (Len(r1) < Len(a))
            /\ (r2 # b) <=> (Len(r2) < Len(b))
            /\ K > Len(a) + Len(b) => r1 = a /\ r2 = b

\* both lists were cut, and an item dropped from the second has the score
\* of the last item kept of the first
C13_Witness ==
    /\ result.fn = "filterScores"
    /\ 0 < Len(result.score1) /\ Len(result.score1) < Len(call.score1)
    /\ 0 < Len(result.score2) /\ Len(result.score2) < Len(call.score2)
    /\ call.score2[Len(result.score2) + 1].second
          = result.score1[Len(result.score1)].second

\* C17: scoreMatch(s, s, isFile) is 0 for every string s and both values of
\* isFile, and scoreMatch never returns a negative score for a candidate
\* that contains the term as a subsequence.
C17_PerfectMatchZero ==
    result.fn = "scoreMatch" =>
        /\ call.suggestion = call.query =>
              result.file = 0 /\ result.symbol = 0
        /\ result.file >= 0 /\ result.symbol >= 0

\* a perfect match has been scored, as a file and as a symbol
C17_Witness ==
    /\ result.fn = "scoreMatch"
    /\ call.suggestion = call.query
    /\ call.suggestion = <<"f", "o", "o">>
    /\ result.file = 0

\* the positions (from 0) at which the term of the call matches its candidate
CallMatches ==
    subsequenceIndices(to_lower_copy(call.suggestion),
                       to_lower_copy(call.query))

RECURSIVE SumSeq(_)
SumSeq(v) == IF v = <<>> THEN 0 ELSE Head(v) + SumSeq(Tail(v))

\* the score of the call's candidate with every match counted at its raw
\* position: the delimiter rule left out, the rest of scoreMatch kept
PlainScore(isFile) ==
    IF call.suggestion = call.query THEN 0
    ELSE SumSeq(CallMatches)
         + (IF to_lower_copy(getExtension(call.suggestion)) = <<".", "r", "d">>
            THEN 3 * Len(call.query) ELSE 0)
         + (IF isFile THEN 1 ELSE 0)

\* C18, as stated: the delimiter rule is a bonus: for every candidate and
\* term no candidate scores higher with the rule than it would with every
\* match counted at its raw position.
C18_DelimiterRuleIsBonus ==
    result.fn = "scoreMatch" =>
        /\ result.file <= PlainScore(TRUE)
        /\ result.symbol <= PlainScore(FALSE)

\* some matched character, not the first of the candidate, follows a '.'
MatchAfterDot ==
    \E j \in 1..Len(CallMatches) :
        CallMatches[j] >= 1 /\ call.suggestion[CallMatches[j]] = "."

\* C19, as stated: for every candidate s and term q that is a subsequence of
\* s, scoreMatch(s, q, true) >= scoreMatch(s, q, false), and the file score
\* is the higher one whenever the positions of the matches count the same
\* for both.
C19_FileNeverAhead ==
    result.fn = "scoreMatch" =>
        /\ result.file >= result.symbol
        /\ ~MatchAfterDot => result.file > result.symbol

\* C19, amended: a perfect match scores 0 as a file and as a symbol; for any
\* other candidate in which no matched character follows a '.', the score
\* as a file is the score as a symbol plus 1.
C19_FilePenaltyUnlessPerfect ==
    result.fn = "scoreMatch" =>
        /\ call.suggestion = call.query =>
              result.file = result.symbol /\ result.file = 0
        /\ (call.suggestion # call.query /\ ~MatchAfterDot) =>
              result.file = result.symbol + 1

\* a candidate that is not the term, matched after a '_', has been scored
C19_Witness ==
    /\ result.fn = "scoreMatch"
    /\ call.suggestion = <<"g", "e", "t", "_", "v", "a", "l", "u", "e">>
    /\ call.query = <<"g", "v">>
    /\ result.file = result.symbol + 1
    /\ result.symbol = 2

\* C20: in the result of searchSource no item comes from an entry of the
\* entry store whose context is the context of a live document that was
\* searched: a file open as a live document and present in the entry store
\* contributes the symbols of the live document only.
C20_LiveDocumentWins ==
    lastOp.op = "searchSource" =>
        \A i \in 1..Len(response.items) :
            response.items[i].from = "entry" =>
                response.items[i].context \notin response.srcDBContexts

\* a search has returned the symbols of a live document whose file has an
\* entry with other symbols in the entry store
C20_Witness ==
    /\ lastOp.op = "searchSource"
    /\ response.items # <<>>
    /\ \E id \in DocIds, i \in 1..Len(entries_) :
          /\ hasIndex(entries_[i])
          /\ indexes_[id] # NullIndex
          /\ indexes_[id].context = entries_[i].pIndex.context
          /\ indexes_[id].code # entries_[i].pIndex.code
          /\ indexes_[id].context \in response.srcDBContexts
          /\ Len(response.items) = Len(CodeItems[indexes_[id].code])

\* the scores of all the files and of all the source items that match the
\* term of the request: what searchFiles, searchSource and searchDefinitions
\* find when no cap cuts their results short
AllScores ==
    LET cap == PreCap * PreCap
        files == searchFiles(entries_, indexes_, call.term, cap,
                             call.hasFileMonitor)
        rSrcItems == searchSource(entries_, indexes_, call.term, cap, FALSE,
                                  call.hasProject).items
        cppDefinitions == searchDefinitions(call.cppIndex, call.term)
    IN  [i \in 1..Len(files.names) |->
            ScoreTable[files.names[i]][call.term][TRUE]]
        \o [i \in 1..Len(rSrcItems) |->
              ScoreTable[rSrcItems[i].name][call.term][FALSE]]
        \o [i \in 1..Len(cppDefinitions) |->
              ScoreTable[cppDefinitions[i].name][call.term][FALSE]]

\* the scores of the files and source items of the response
ReturnedScores == Scores(result.fileScores) \o Scores(result.srcItemScores)

\* how many of the scores are at most v
CountUpTo(scores, v) == Cardinality({i \in 1..Len(scores) : scores[i] <= v})

\* C14, as stated: searchCode reports more_available = true if and only if
\* the index holds more files and symbols matching the term than the
\* response returns, whatever truncation left them out.
C14_MoreAvailableExact ==
    result.fn = "searchCode" =>
        (result.more_available <=> Len(AllScores) > Len(ReturnedScores))

\* C15, as stated: for every term and maxResults = K, the files and symbols
\* returned by searchCode are K candidates of lowest score among all the
\* files and symbols that match the term (all of them when fewer than K
\* match), and the response never holds more than K items.
C15_ReturnsKLowest ==
    result.fn = "searchCode" =>
        /\ Len(ReturnedScores) <= call.maxResults
        /\ \A v \in 0..(2 * PreCap) :
              CountUpTo(ReturnedScores, v)
                  = Min(call.maxResults, CountUpTo(AllScores, v))

\* the scores are ascending and, where equal, in the order of the scan
InScanOrder(scores) ==
    \A i, j \in 1..Len(scores) :
        i < j => \/ scores[i].second < scores[j].second
                 \/ /\ scores[i].second = scores[j].second
                    /\ scores[i].first < scores[j].first

\* C16, as stated: within the file bucket and within the symbol bucket of a
\* response, items are in ascending score order, and two items of equal
\* score appear in the order in which the scan produced them.
C16_TiesInScanOrder ==
    result.fn = "searchCode" =>
        InScanOrder(result.fileScores) /\ InScanOrder(result.srcItemScores)


\* the entries whose filename matches the term of the call, in the order of
\* the store
MatchingEntries ==
    SelectSeq(entries_,
              LAMBDA e : fileMatches(filename(e.fileInfo), call.term,
                                     call.prefixOnly))

\* C21: SourceFileIndex::searchFiles with cap C over a store holding M
\* entries whose filename matches returns the first min(M, C) of them in
\* path order, names and paths of equal length, and moreAvailable is true
\* exactly when M > C.
C21_FirstMatchesUpToCap ==
    result.fn = "searchFiles" =>
        LET n == Min(Len(MatchingEntries), call.maxResults)
        IN  /\ Len(result.names) = Len(result.paths)
            /\ result.paths = [i \in 1..n |-> MatchingEntries[i].fileInfo]
            /\ result.names
                 = [i \in 1..n |-> filename(MatchingEntries[i].fileInfo)]
            /\ \A i, j \in 1..n : i < j => result.paths[i] < result.paths[j]
            /\ result.more <=> Len(MatchingEntries) > call.maxResults

\* more entries match than the cap lets through, and some are returned
C21_Witness ==
    /\ result.fn = "searchFiles"
    /\ Len(MatchingEntries) > call.maxResults
    /\ Len(result.names) >= 2
    /\ result.more

hasColon(term) == \E i \in 1..Len(term) : term[i] = ":"

\* C22, as stated: for every term that contains ':' and in every matching
\* mode of the filename search (prefix-only, subsequence, wildcard), the
\* filenames matched by the term are those matched by the part of the term
\* before its first ':'.
C22_OnlyBeforeColonMatches ==
    (result.fn = "searchFiles" /\ hasColon(call.term)) =>
        result.names
            = indexSearchFiles(entries_, beforeColon(call.term),
                               call.maxResults, call.prefixOnly).names

\* the positions, in the code of an index, of the top-level functions and
\* methods called name
GlobalFunctionsOf(pIndex, name) ==
    {i \in 1..Len(CodeItems[pIndex.code]) :
        /\ CodeItems[pIndex.code][i].braceLevel = 0
        /\ CodeItems[pIndex.code][i].type \in {"Function", "Method"}
        /\ CodeItems[pIndex.code][i].name = name}

\* whether item is the first such function of pIndex
IsFirstGlobalFunctionOf(item, pIndex, name) ==
    \E i \in GlobalFunctionsOf(pIndex, name) :
        /\ \A j \in GlobalFunctionsOf(pIndex, name) : i <= j
        /\ item.name = CodeItems[pIndex.code][i].name
        /\ item.type = CodeItems[pIndex.code][i].type
        /\ item.line = CodeItems[pIndex.code][i].line
        /\ item.context = pIndex.context

\* the request looked a plain function name up in the indexes
LookedUp ==
    /\ result # NoResult
    /\ result.fn = "getFunctionDefinition"
    /\ result.status = "Success"
    /\ ~call.ext.guessToken.error
    /\ call.ext.guessToken.value # <<>>
    /\ \A i \in 1..Len(call.ext.guessToken.value) :
          call.ext.guessToken.value[i] # ":"

\* C23: the lookup of a global function returns the first top-level
\* Function or Method item of exactly that name from the first live
\* document, in doc-id order and passing the scope filter, that has one;
\* otherwise from the first entry in path order that has symbols, whose
\* context the live pass did not search, and that has one; and it finds
\* nothing only when neither has one.
C23_FirstGlobalFunction ==
    LookedUp =>
        LET name == call.ext.guessToken.value
            live == {id \in DocIds :
                        /\ indexes_[id] # NullIndex
                        /\ call.hasProject =>
                               indexes_[id].context \in ProjectFiles}
            liveHits == {id \in live :
                            GlobalFunctionsOf(indexes_[id], name) # {}}
            searched == {indexes_[id].context : id \in live}
            entryHits ==
                {i \in 1..Len(entries_) :
                    /\ entries_[i].pIndex # NullIndex
                    /\ entries_[i].pIndex.context \notin searched
                    /\ GlobalFunctionsOf(entries_[i].pIndex, name) # {}}
        IN  IF liveHits # {}
            THEN /\ result.lookup.found
                 /\ \E id \in liveHits :
                       /\ \A other \in liveHits : id <= other
                       /\ IsFirstGlobalFunctionOf(result.lookup.sourceItem,
                                                  indexes_[id], name)
            ELSE IF entryHits # {}
            THEN /\ result.lookup.found
                 /\ \E i \in entryHits :
                       /\ \A other \in entryHits :
                             entries_[i].fileInfo <= entries_[other].fileInfo
                       /\ IsFirstGlobalFunctionOf(result.lookup.sourceItem,
                                                  entries_[i].pIndex, name)
            ELSE ~result.lookup.found

\* a lookup that found, in an entry, a method that follows a class of the
\* same name, after a live pass that searched documents and skipped the
\* entry of one of them
C23_Witness ==
    /\ LookedUp
    /\ result.lookup.found
    /\ result.lookup.sourceItem.from = "entry"
    /\ result.lookup.sourceItem.type = "Method"
    /\ result.lookup.contexts # {}
    /\ \E i \in 1..Len(entries_) :
          /\ entries_[i].pIndex # NullIndex
          /\ entries_[i].pIndex.context \in result.lookup.contexts
          /\ entries_[i].fileInfo < result.lookup.sourceItem.context

\* a call into R made by the request failed
ExternalCallFailed ==
    \/ call.ext.guessToken.error
    \/ call.ext.getPackageFunction.error
    \/ call.ext.findFunctionNamespace.error
    \/ call.ext.getFunction.error
    \/ call.ext.getS4Method.error
    \/ call.ext.getAnywhere.error
    \/ call.ext.getAnywhere.whereError

\* C24: a definition request whose parameters were read returns success,
\* also when a call into R (token guessing, namespace lookup, function
\* retrieval) fails: getFunctionDefinition, findFunctionInSearchPath and
\* getMethodDefinition return no error because of such a failure.
C24_LookupErrorIsNotReturned ==
    (/\ result # NoResult
     /\ result.fn \in {"getFunctionDefinition", "findFunctionInSearchPath",
                       "getMethodDefinition"}
     /\ ~call.paramsError
     /\ ExternalCallFailed)
        => result.status = "Success"

\* C25: in a search response, a symbol whose name equals the term is ranked
\* before every symbol whose name only contains the term as a proper prefix
\* or subsequence, for every term.
C25_ExactNameFirst ==
    result.fn = "searchCode" =>
        \A i, j \in 1..Len(result.items) :
            (/\ result.items[i].name = call.term
             /\ result.items[j].name # call.term) => i < j

\* C26: enqueFileChange never schedules work with an initial burst: it
\* schedules recurring small-slice work only, and only when indexing_ is
\* false; enqueFiles schedules work with an initial burst exactly when,
\* after appending, the queue is non-empty and indexing_ is false, and
\* schedules nothing otherwise.
C26_BurstOnlyFromEnqueFiles ==
    [][/\ lastOp'.op = "enqueFileChange" =>
              /\ work'.burst = work.burst
              /\ work'.slice \in {work.slice, work.slice + 1}
              /\ work'.slice = work.slice + 1 => ~indexing_
       /\ lastOp'.op = "enqueFiles" =>
              /\ work'.slice = work.slice
              /\ IF indexingQueue_' # <<>> /\ ~indexing_
                 THEN work'.burst = work.burst + 1
                 ELSE work'.burst = work.burst]_vars

\* enqueFileChange has scheduled work in slices, after enqueFiles had
\* scheduled work with a burst
C26_Witness ==
    /\ lastOp.op = "enqueFileChange"
    /\ work.slice = 1
    /\ work.burst = 1

\* C27: at most one dequeAndIndex work item is registered with the
\* scheduler at any time, after any sequence of enqueFiles,
\* enqueFileChange, background steps and clear, a clear followed by a new
\* enqueue before the work scheduled earlier has run again included.
C27_AtMostOneWorkItem == work.burst + work.slice <= 1

\* C28: between operations, each of enqueFiles, enqueFileChange,
\* dequeAndIndex and clear taken as atomic, a non-empty queue implies that
\* indexing_ is true and that at least one work item is still registered
\* with the scheduler.
C28_QueuedEventHasWork ==
    Len(indexingQueue_) >= 1 => (indexing_ = TRUE /\ WorkCount(work) >= 1)

\* a background step has processed an event and left another in the queue,
\* and its work item stays registered
C28_Witness ==
    /\ lastOp.op = "dequeAndIndex"
    /\ lastOp.type # "None"
    /\ lastOp.ret
    /\ indexingQueue_ # <<>>
    /\ indexing_
    /\ WorkCount(work) >= 1

\* the entries of the files other than f, in the order of the store
EntriesBut(s, f) == SelectSeq(s, LAMBDA entry : entry.fileInfo # f)

\* C29: after a step processes Added(f) or Modified(f) with a successful
\* read, or for a non-indexable f, the store holds one entry for f carrying
\* the symbols of this latest read (none for a non-indexable f), whether or
\* not an entry for f existed before and wherever it sat in the order, and
\* every entry for a file other than f is unchanged.
C29_UpsertReplacesOneEntry ==
    [][(/\ lastOp'.op = "dequeAndIndex"
        /\ lastOp'.type \in {"FileAdded", "FileModified"}
        /\ \/ lastOp'.read.status = "ok"
           \/ ~isIndexableSourceFile(lastOp'.fileInfo))
          => LET f == lastOp'.fileInfo
             IN  /\ EntryCount(entries_', f) = 1
                 /\ IF isIndexableSourceFile(f)
                    THEN /\ EntryOf(entries_', f).pIndex.context = f
                         /\ EntryOf(entries_', f).pIndex.code
                              = lastOp'.read.code
                    ELSE EntryOf(entries_', f).pIndex = NullIndex
                 /\ EntriesBut(entries_', f) = EntriesBut(entries_, f)]_vars

\* a step has processed Modified(f) for the file that is last of two in the
\* store, and the entry of the other file carries symbols
C29_Witness ==
    /\ lastOp.op = "dequeAndIndex"
    /\ lastOp.type = "FileModified"
    /\ Len(entries_) = 2
    /\ entries_[2].fileInfo = lastOp.fileInfo
    /\ entries_[1].pIndex # NullIndex

\* every entry is of a trackable file, and carries symbols only if the
\* extension of its file is .r
EntriesTrackable ==
    \A i \in 1..Len(entries_) :
        /\ isSourceFile(entries_[i].fileInfo)
        /\ entries_[i].pIndex # NullIndex =>
               extensionLowerCase(entries_[i].fileInfo) = <<".", "r">>

\* C30: in every reachable state, every entry of the store belongs to a
\* file that passed the trackable filter when it was enqueued, and an entry
\* has symbol data only if its file is indexable (extension .r); an event
\* for a non-trackable file changes neither the queue, nor indexing_, nor
\* the store.
C30_OnlyTrackableFiles ==
    /\ []EntriesTrackable
    /\ [][(/\ lastOp'.op = "enqueFileChange"
           /\ ~isSourceFile(lastOp'.fileInfo))
             => UNCHANGED <<indexingQueue_, indexing_, entries_>>]_vars

\* an event for a file that is not trackable has just been handed in, while
\* the store holds an entry with symbols, an entry without and an event is
\* queued
C30_Witness ==
    /\ lastOp.op = "enqueFileChange"
    /\ ~isSourceFile(lastOp.fileInfo)
    /\ \E i \in 1..Len(entries_) : entries_[i].pIndex # NullIndex
    /\ \E i \in 1..Len(entries_) : entries_[i].pIndex = NullIndex
    /\ indexingQueue_ # <<>>

\* the number of items of a list that come from the live documents ("doc")
\* or from the entry store ("entry")
CountFrom(items, from) ==
    Cardinality({i \in 1..Len(items) : items[i].from = from})

\* C31: searchSource never returns more than maxResults items; all items
\* from live documents precede all items from the entry store, and the
\* entry store contributes at most maxResults minus the number of
\* live-document items (nothing when the live pass already filled the cap).
C31_CapAndLiveFirst ==
    result.fn = "searchSource" =>
        /\ Len(result.items) <= call.maxResults
        /\ \A i, j \in 1..Len(result.items) :
              (result.items[i].from = "doc" /\ result.items[j].from = "entry")
                  => i < j
        /\ CountFrom(result.items, "entry")
             <= call.maxResults - CountFrom(result.items, "doc")
        /\ CountFrom(result.items, "doc") = call.maxResults
             => CountFrom(result.items, "entry") = 0

\* the positions <<id, k>> of the matching items of the live documents that
\* pass the scope filter
LiveMatches ==
    {p \in DocIds \X (1..Len(LongCode)) :
        /\ indexes_[p[1]] # NullIndex
        /\ call.hasProject => indexes_[p[1]].context \in ProjectFiles
        /\ p[2] <= Len(CodeItems[indexes_[p[1]].code])
        /\ ItemMatchTable[CodeItems[indexes_[p[1]].code][p[2]].name]
                         [call.term][call.prefixOnly]}

\* the positions <<i, k>> of the matching items of the entries of files
\* that are not such a live document
StoreMatches ==
    {p \in (1..Len(entries_)) \X (1..Len(LongCode)) :
        /\ entries_[p[1]].pIndex # NullIndex
        /\ \A id \in DocIds :
              (/\ indexes_[id] # NullIndex
               /\ call.hasProject => indexes_[id].context \in ProjectFiles)
                  => indexes_[id].context # entries_[p[1]].pIndex.context
        /\ p[2] <= Len(CodeItems[entries_[p[1]].pIndex.code])
        /\ ItemMatchTable[CodeItems[entries_[p[1]].pIndex.code][p[2]].name]
                         [call.term][call.prefixOnly]}

\* the live pass left room, the entry store filled it and had more
C31_Witness ==
    /\ result.fn = "searchSource"
    /\ CountFrom(result.items, "doc") >= 1
    /\ CountFrom(result.items, "entry") >= 1
    /\ Len(result.items) = call.maxResults
    /\ Cardinality(StoreMatches) > CountFrom(result.items, "entry")

\* C32: if the live documents and the entry store together hold more
\* symbols matching the term than maxResults, searchSource sets its
\* moreAvailable output to true; it sets it to false otherwise.
C32_MoreAvailableWhenCut ==
    result.fn = "searchSource" =>
        (result.more <=>
            Cardinality(LiveMatches) + Cardinality(StoreMatches)
                > call.maxResults)

\* the whole term is a subsequence of the name, case ignored
HoldsTerm(name, term) == IsSubseq(to_lower_copy(name), to_lower_copy(term))

\* C33: every filename and symbol name that searchCode passes to scoreMatch
\* contains the full term as a case-insensitive subsequence, so the
\* match-position vector has one position per term character and every
\* read matches[j] for j < length(term) is in bounds; this holds for every
\* term, terms with a ':row:column' suffix and terms with a wildcard
\* included.
C33_ScoredNamesHoldTerm ==
    result.fn = "searchCodeCandidates" =>
        /\ \A i \in 1..Len(result.names) :
              HoldsTerm(result.names[i], call.term)
        /\ \A i \in 1..Len(result.srcNames) :
              HoldsTerm(result.srcNames[i], call.term)

\* C34: a query operation (searchFiles, searchSource, findGlobalFunction,
\* searchCode, getFunctionDefinition) leaves the entry store, the pending
\* queue, indexing_ and the live-document index as they were, and an
\* operation of the entry store (enqueue, step, clear: the steps that leave
\* lastOp at NoOp) leaves the live-document index as it was
QueryOperations ==
    {"searchFiles", "searchSource", "findGlobalFunction", "searchCode",
     "getFunctionDefinition"}

C34_QueriesAndStoreKeepTheirFrame ==
    [][/\ lastOp'.op \in QueryOperations
          => UNCHANGED <<entries_, indexingQueue_, indexing_, indexes_>>
       /\ lastOp'.op = NoOp.op => UNCHANGED indexes_]_vars

\* a query has answered over a store, a queue and a live document that all
\* hold something, with the indexer at work
C34_Witness ==
    /\ lastOp.op \in QueryOperations
    /\ entries_ # <<>>
    /\ indexingQueue_ # <<>>
    /\ indexing_
    /\ indexes_[1] # NullIndex

\* C35: after any sequence of document notifications the live-document index
\* holds an entry for a document id only if the most recent update of that
\* document carried a non-empty path with extension .r, and the entry is the
\* index of the symbols of that update
C35_EntryIsOfMostRecentUpdate ==
    \A id \in DocIds :
        indexes_[id] # NullIndex
        => /\ call.last[id] # NoUpdate
           /\ call.last[id].path # 0
           /\ extensionLowerCase(call.last[id].path) = <<".", "r">>
           /\ indexes_[id] = RSourceIndex(call.last[id].path,
                                          call.last[id].contents)

\* the token of a definition request, as guessFunctionToken splits it
TokenOfRequest == splitToken(call.ext.guessToken.value)

\* getFunctionDefinition has set a response
DefinitionAnswered ==
    /\ result # NoResult
    /\ result.fn = "getFunctionDefinition"
    /\ result.status = "Success"

\* C36: the response of getFunctionDefinition never carries both a file with
\* a position and a search-path definition; file and position are present
\* exactly when the token has no package qualifier, has a non-empty name and
\* the lookup in the indexes found a global function; a token with a package
\* qualifier does not consult the indexes; function_name is null exactly
\* when the name of the token is empty
C36_LocationOrSearchPath ==
    DefinitionAnswered
    => LET d == result.definition
           token == TokenOfRequest
       IN  /\ ~(d.file # 0 /\ d.search_path_definition # NullValue)
           /\ (d.file # 0) = (d.line # 0)
           /\ (d.file # 0) = (/\ token.package = <<>>
                              /\ token.name # <<>>
                              /\ result.lookup.found)
           /\ token.package # <<>> => ~result.lookup.consulted
           /\ ~d.hasName = (token.name = <<>>)

\* a token with a package qualifier was answered with a search-path
\* definition while the entry store holds a global function of its name
C36_Witness ==
    /\ DefinitionAnswered
    /\ TokenOfRequest.package # <<>>
    /\ result.definition.search_path_definition # NullValue
    /\ \E i \in 1..Len(entries_) :
          /\ hasIndex(entries_[i])
          /\ GlobalFunctionsOf(entries_[i].pIndex, TokenOfRequest.name) # {}
============================================================================
